---- MODULE Spec2Model ----
(***************************************************************************)
(* Model of the price-alert monitoring core (ALERTA STOCKS).               *)
(*                                                                         *)
(* The monitoring cycle MonitoringScheduler._price_monitoring_job is an    *)
(* asyncio coroutine.  Every action below is the completion of one await   *)
(* of that coroutine followed by the synchronous code that runs up to the  *)
(* next await.  Two callers can have a cycle in flight: the APScheduler    *)
(* interval job ("timer") and trigger_manual_check ("manual").             *)
(***************************************************************************)
EXTENDS Integers, Sequences, FiniteSets, TLC

\* ---------------------------------------------------------------- bounds
MaxTime == 2          \* the clock runs over 0..MaxTime
MaxCycles == 2        \* cycles started in one behaviour
CooldownTicks == 2    \* cooldown_hours * 3600, in clock ticks
MaxSleepers == 2      \* restart() calls asleep at the same time
MaxFaults == 1        \* failures of storage, providers and channel injected

\* ------------------------------------------------------- finite universes
SimpleIds == {1, 2}                 \* rows of table alerts
AdvIds == {3}                       \* rows of table advanced_alerts
Runners == {"timer", "manual"}      \* callers of _price_monitoring_job
Prices == {1, 2, 3}                 \* PriceData.current_price
ChangePcts == {-5, 0, 5}            \* 24h change reported by the provider

DefaultInterval == 5                \* settings.monitoring_interval_minutes
MinInterval == 1                    \* update_interval lower limit
MaxInterval == 60                   \* update_interval upper limit

NoTime == <<>>                      \* a NULL timestamp column
Aware(t) == <<"aware", t>>          \* ISO string with UTC offset
Naive(t) == <<"naive", t>>          \* timestamp stored without offset

VARIABLES
    now,                    \* datetime.now(timezone.utc)
    is_running,             \* scheduler.running / stats.is_running
    enable_whatsapp,        \* settings.enable_whatsapp
    alerts,                 \* table alerts
    advanced_alerts,        \* table advanced_alerts
    alert_trigger_history,  \* table alert_trigger_history
    stats,                  \* MonitoringStats
    pc,                     \* per caller: the await the cycle is suspended at
    cycle_stats,            \* per caller: the cycle_stats dict
    active_alerts,          \* per caller: simple rows loaded by this cycle
    adv_rows,               \* per caller: advanced rows loaded by this cycle
    idx,                    \* per caller: position in the current loop
    triggered,              \* per caller: result of the current evaluation
    delivery,               \* per caller: outcome of the last dispatch
    last_sent,              \* history: time of the last delivered notification
    seen,                   \* history: alerts whose loop body was entered
    failing,                \* history: alerts whose fetch/evaluation call raised
    totals,                 \* history: sums over returned cycle_stats
    faults,                 \* history: failures injected so far
    monitoring_interval_minutes,  \* settings.monitoring_interval_minutes
    scheduler,              \* self.scheduler: None or the AsyncIOScheduler
    detached,               \* running schedulers self.scheduler lost track of
    sleepers,               \* restart() calls suspended in asyncio.sleep(1)
    last_call,              \* history: the last lifecycle call and its outcome
    eval_in,                \* arguments handed to an evaluator
    eval_out,               \* what the evaluator returned or raised
    send,                   \* the send_price_alert call in progress
    notification_attempts,  \* table notification_attempts
    channel_attempts,       \* history: calls of client.messages.create
    clock,                  \* time.time()
    cache,                  \* PriceCache._cache
    last_get,               \* history: the last PriceCache.get and its result
    stored,                 \* history: per key, the last PriceCache.set
    retry,                  \* the exponential_backoff_retry call in progress
    providers,              \* PriceServiceV2.providers
    call,                   \* the PriceServiceV2.get_price call in progress
    limiter,                \* a provider's RateLimiter and the tasks in acquire
    outbound                \* history: times of the requests sent to the provider

vars == <<now, is_running, enable_whatsapp, alerts, advanced_alerts,
          alert_trigger_history, stats, pc, cycle_stats, active_alerts,
          adv_rows, idx, triggered, delivery, last_sent, seen, failing,
          totals, faults, monitoring_interval_minutes, scheduler, detached,
          sleepers, last_call, eval_in, eval_out, send,
          notification_attempts, channel_attempts, clock, cache, last_get,
          stored, retry, providers, call, limiter, outbound>>

\* The scheduler object and the settings it is built from.
lifecycle == <<monitoring_interval_minutes, scheduler, detached, sleepers,
               last_call>>

\* The evaluator under test.
evaluation == <<eval_in, eval_out>>

\* The notification service and its table.
dispatch == <<send, notification_attempts, channel_attempts>>

\* The price providers' shared helpers.
caching == <<clock, cache, last_get, stored>>
pacing == <<retry>>
serving == <<providers, call>>
limiting == <<limiter, outbound>>
fetching == <<caching, pacing, serving, limiting>>

\* ------------------------------------------------------------- helpers
Abs(x) == IF x < 0 THEN -x ELSE x

SetMin(S) == CHOOSE x \in S : \A y \in S : x <= y

RECURSIVE SortedSeq(_)
SortedSeq(S) == IF S = {} THEN <<>>
                ELSE <<SetMin(S)>> \o SortedSeq(S \ {SetMin(S)})

\* SELECT * FROM alerts WHERE is_active = 1, mapped to alert_dict
SelectActiveAlerts ==
    LET ids == SortedSeq({a \in SimpleIds : alerts[a].is_active})
    IN [k \in 1..Len(ids) |->
          [id |-> ids[k],
           condition_type |-> alerts[ids[k]].condition_type,
           threshold_price |-> alerts[ids[k]].threshold_price,
           last_triggered |-> alerts[ids[k]].last_triggered]]

\* SELECT * FROM advanced_alerts WHERE is_active = 1
SelectActiveAdvanced ==
    LET ids == SortedSeq({a \in AdvIds : advanced_alerts[a].is_active})
    IN [k \in 1..Len(ids) |->
          [id |-> ids[k],
           direction |-> advanced_alerts[ids[k]].direction,
           change_percentage |-> advanced_alerts[ids[k]].change_percentage,
           last_triggered |-> advanced_alerts[ids[k]].last_triggered]]

\* _is_in_cooldown: datetime.now(utc) - naive datetime raises TypeError
CooldownRaises(last_triggered) ==
    last_triggered # NoTime /\ last_triggered[1] = "naive"

\* _is_in_cooldown
IsInCooldown(last_triggered, t) ==
    IF last_triggered = NoTime THEN FALSE
    ELSE t - last_triggered[2] < CooldownTicks

\* Variant: the comparisons are strict.
ThresholdMetStrict(condition_type, threshold_price, current_price) ==
    \/ condition_type = ">=" /\ current_price > threshold_price
    \/ condition_type = "<=" /\ current_price < threshold_price

\* _check_alert: condition test
ThresholdMet(condition_type, threshold_price, current_price) ==
    \/ condition_type = ">=" /\ current_price >= threshold_price
    \/ condition_type = "<=" /\ current_price <= threshold_price

\* Variant: "down" negates the threshold without taking its magnitude.
EvalPercentageChangeSigned(direction, threshold, change_pct) ==
    \/ direction = "up" /\ change_pct >= threshold
    \/ direction = "down" /\ change_pct <= -threshold
    \/ direction = "any" /\ Abs(change_pct) >= Abs(threshold)

\* _eval_percentage_change: meets
EvalPercentageChange(direction, threshold, change_pct) ==
    \/ direction = "up" /\ change_pct >= threshold
    \/ direction = "down" /\ change_pct <= -Abs(threshold)
    \/ direction = "any" /\ Abs(change_pct) >= Abs(threshold)

NewCycleStats ==
    [alerts_checked |-> 0, alerts_triggered |-> 0, errors |-> <<>>,
     triggered_alerts |-> <<>>, error |-> FALSE, message |-> FALSE]

NewStats ==
    [total_cycles |-> 0, successful_cycles |-> 0, failed_cycles |-> 0,
     alerts_processed |-> 0, alerts_triggered |-> 0, last_error |-> FALSE]

\* The tables as found at start-up: which rows are active, and the stored form
\* of alert 1's last_triggered (AlertService.update_last_triggered stores
\* datetime.utcnow(), a timestamp without offset).
InitialTables ==
    { [active |-> {}, stamp |-> NoTime],
      [active |-> SimpleIds, stamp |-> NoTime],
      [active |-> SimpleIds \cup AdvIds, stamp |-> Naive(0)] }

\* Line 50 / lines 64-88: self.scheduler is None until start() builds an
\* AsyncIOScheduler whose job fires every monitoring_interval_minutes.
NoScheduler == [running |-> FALSE, interval |-> 0]

NewScheduler(minutes) == [running |-> TRUE, interval |-> minutes]

\* A lifecycle call, its outcome and its argument (0 when it takes none);
\* seq alternates so that two equal calls in a row are told apart.
Call(op, outcome, arg) ==
    [op |-> op, outcome |-> outcome, arg |-> arg, seq |-> 1 - last_call.seq]

NoCall == [op |-> "none", outcome |-> "none", arg |-> 0, seq |-> 0]

NoEval == [fn |-> "none"]

\* No exception.
NoError == [class |-> "none", status |-> 0]

\* No send_price_alert call has been made.
NoSend ==
    [pc |-> "idle", attempt |-> 0, tries |-> <<>>, last_error |-> NoError,
     sent |-> FALSE, retry_error |-> NoError, raised |-> NoError,
     calls |-> 0]

\* What can be asked of a provider: an explicit asset type, or None with a
\* symbol that looks like a stock, like both, or like neither.
RequestKinds == {"stock", "crypto", "auto_stock", "auto_both", "auto_none"}

\* providers/alpha_vantage_provider.py: priority 1.
AlphaVantageProvider ==
    [name |-> "Alpha Vantage", priority |-> 1,
     handles |-> {"stock", "auto_stock", "auto_both"}]

\* providers/coingecko_provider.py: priority 2.
CoinGeckoProvider ==
    [name |-> "CoinGecko", priority |-> 2, handles |-> {"crypto", "auto_both"}]

\* list.sort(key=get_priority) is stable: insertion after the last element
\* whose priority is not greater.
RECURSIVE InsertByPriority(_, _)
InsertByPriority(sorted, p) ==
    IF sorted = <<>> \/ sorted[Len(sorted)].priority <= p.priority
    THEN Append(sorted, p)
    ELSE Append(InsertByPriority(SubSeq(sorted, 1, Len(sorted) - 1), p),
                sorted[Len(sorted)])

RECURSIVE SortProviders(_)
SortProviders(list) ==
    IF list = <<>> THEN <<>>
    ELSE InsertByPriority(SortProviders(SubSeq(list, 1, Len(list) - 1)),
                          list[Len(list)])

\* No PriceServiceV2.get_price call has been made.
NoCallV2 ==
    [pc |-> "idle", kind |-> "none", snapshot |-> <<>>, suitable |-> <<>>,
     log |-> <<>>, result |-> "none"]

PaceInterval == 2     \* RateLimiter.min_interval

\* The tasks that fetch a price through get_stock_price at the same time.
Tasks == {"check_1", "check_2"}

\* RateLimiter.__init__, lines 69-73: last_call_time = 0.0 on the event
\* loop's clock, that is at least min_interval before the first call.
NewLimiter ==
    [last_call_time |-> -PaceInterval, holder |-> "none",
     pc |-> [t \in Tasks |-> "idle"]]

\* No exponential_backoff_retry call has been made.
NoRetry ==
    [pc |-> "idle", max_retries |-> 0, max_delay |-> 0, attempt |-> 0,
     outcomes |-> <<>>, delays |-> <<>>, last_exception |-> "none",
     raised |-> "none"]

\* No PriceCache.get has been made.
NoGet == [key |-> <<>>, result |-> 0, at |-> -1]

\* PriceCache.__init__, lines 15-18: an empty cache.
FetchingIdle ==
    /\ clock = 0
    /\ cache = <<>>
    /\ last_get = NoGet
    /\ stored = <<>>
    /\ retry = NoRetry
    /\ providers = SortProviders(<<AlphaVantageProvider, CoinGeckoProvider>>)
    /\ call = NoCallV2
    /\ limiter = NewLimiter
    /\ outbound = <<>>

DispatchIdle ==
    /\ send = NoSend
    /\ notification_attempts = <<>>
    /\ channel_attempts = 0
    /\ FetchingIdle

\* ----------------------------------------------------------------- Init
Init ==
    /\ now = 0
    /\ is_running = FALSE
    /\ enable_whatsapp = TRUE
    /\ \E db \in InitialTables :
         /\ alerts = [a \in SimpleIds |->
                     [is_active |-> a \in db.active,
                      condition_type |-> IF a = 1 THEN ">=" ELSE "<=",
                      threshold_price |-> 2,
                      last_triggered |-> IF a = 1 THEN db.stamp ELSE NoTime]]
         /\ advanced_alerts = [a \in AdvIds |->
                     [is_active |-> a \in db.active,
                      direction |-> "up",
                      change_percentage |-> 5,
                      last_triggered |-> NoTime,
                      last_checked |-> NoTime,
                      trigger_count |-> 0,
                      max_triggers |-> 1, expiry_date |-> Aware(1)]]
    /\ alert_trigger_history = <<>>
    /\ stats = NewStats
    /\ pc = [r \in Runners |-> "idle"]
    /\ cycle_stats = [r \in Runners |-> NewCycleStats]
    /\ active_alerts = [r \in Runners |-> <<>>]
    /\ adv_rows = [r \in Runners |-> <<>>]
    /\ idx = [r \in Runners |-> 0]
    /\ triggered = [r \in Runners |-> FALSE]
    /\ delivery = [r \in Runners |-> "none"]
    /\ last_sent = [a \in SimpleIds \cup AdvIds |-> NoTime]
    /\ seen = [r \in Runners |-> <<>>]
    /\ failing = [r \in Runners |-> {}]
    /\ totals = [alerts_checked |-> 0, alerts_triggered |-> 0]
    /\ faults = 0
    /\ monitoring_interval_minutes = DefaultInterval
    /\ scheduler = NoScheduler
    /\ detached = 0
    /\ sleepers = 0
    /\ last_call = NoCall
    /\ eval_in = NoEval
    /\ eval_out = NoEval
    /\ DispatchIdle

\* ------------------------------------------------- the cycle, step by step
\* Lines 254-258 / 339-342: a per-alert exception is appended to the errors
\* list and the loop goes on with the next alert.
RecordError(cs, id) == [cs EXCEPT !.errors = Append(@, id)]

\* Line 251: the alert returned from _check_alert without raising.
CountChecked(cs) == [cs EXCEPT !.alerts_checked = @ + 1]

\* Lines 408-415: bookkeeping of a triggered simple alert.
CountTriggered(cs, id) ==
    [cs EXCEPT !.alerts_triggered = @ + 1,
               !.triggered_alerts = Append(@, id)]

\* Lines 260-262: global statistics, updated between the two loops.
UpdateGlobalStats(st, cs) ==
    [st EXCEPT !.alerts_processed = @ + cs.alerts_checked,
               !.alerts_triggered = @ + cs.alerts_triggered]

\* Line 343 (and line 225 for the empty cycle).
CycleSucceeded(st) == [st EXCEPT !.successful_cycles = @ + 1]

\* Variant: the except branch counts the cycle as successful.
CycleFailedAsSuccess(st) ==
    [st EXCEPT !.successful_cycles = @ + 1, !.last_error = TRUE]

\* Lines 358-365: the except branch of the whole job.
CycleFailed(st) ==
    [st EXCEPT !.failed_cycles = @ + 1, !.last_error = TRUE]

\* The synchronous part of the simple loop (lines 247-258 with 367-373):
\* starting at position i, alerts are consumed without suspending while
\* the cooldown check raises or reports a cooldown; the loop suspends at
\* the first alert whose price has to be fetched.
RECURSIVE SimpleLoop(_, _, _, _)
\* Variant: an exception of the cooldown check ends the simple loop.
SimpleLoopAborting(rows, i, cs, sn) ==
    IF i > Len(rows) THEN [i |-> i, cs |-> cs, seen |-> sn]
    ELSE IF CooldownRaises(rows[i].last_triggered)
         THEN [i |-> Len(rows) + 1, cs |-> RecordError(cs, rows[i].id),
               seen |-> Append(sn, rows[i].id)]
    ELSE IF IsInCooldown(rows[i].last_triggered, now)
         THEN SimpleLoop(rows, i + 1, CountChecked(cs),
                         Append(sn, rows[i].id))
    ELSE [i |-> i, cs |-> cs, seen |-> Append(sn, rows[i].id)]

SimpleLoop(rows, i, cs, sn) ==
    IF i > Len(rows) THEN [i |-> i, cs |-> cs, seen |-> sn]
    ELSE IF CooldownRaises(rows[i].last_triggered)
         THEN SimpleLoop(rows, i + 1, RecordError(cs, rows[i].id),
                         Append(sn, rows[i].id))
    ELSE IF IsInCooldown(rows[i].last_triggered, now)
         THEN SimpleLoop(rows, i + 1, CountChecked(cs),
                         Append(sn, rows[i].id))
    ELSE [i |-> i, cs |-> cs, seen |-> Append(sn, rows[i].id)]

\* Lines 265-280 and 343-356: enter the body for advanced row j, or finish.
EnterAdv(advs, j, cs, sn, st) ==
    IF j > Len(advs)
    THEN [pc |-> "done", idx |-> 0, cs |-> cs, seen |-> sn,
          stats |-> CycleSucceeded(st)]
    ELSE [pc |-> "adv_eval", idx |-> j, cs |-> cs,
          seen |-> Append(sn, advs[j].id), stats |-> st]

\* Lines 247-265: continue the simple loop at position i.
EnterSimple(rows, advs, i, cs, sn, st) ==
    LET s == SimpleLoop(rows, i, cs, sn)
    IN IF s.i <= Len(rows)
       THEN [pc |-> "fetch", idx |-> s.i, cs |-> s.cs, seen |-> s.seen,
             stats |-> st]
       ELSE EnterAdv(advs, 1, s.cs, s.seen, UpdateGlobalStats(st, s.cs))

\* The caller r is suspended again (or the job has returned) in state post;
\* the locals of the alert just left are gone.
Resume(r, post) ==
    /\ pc' = [pc EXCEPT ![r] = post.pc]
    /\ idx' = [idx EXCEPT ![r] = post.idx]
    /\ cycle_stats' = [cycle_stats EXCEPT ![r] = post.cs]
    /\ seen' = [seen EXCEPT ![r] = post.seen]
    /\ triggered' = [triggered EXCEPT ![r] = FALSE]
    /\ delivery' = [delivery EXCEPT ![r] = "none"]
    /\ stats' = post.stats
    /\ totals' = IF post.pc = "done"
                 THEN [alerts_checked |->
                          totals.alerts_checked + post.cs.alerts_checked,
                       alerts_triggered |->
                          totals.alerts_triggered + post.cs.alerts_triggered]
                 ELSE totals

\* An external collaborator (storage, price provider, channel) fails.
Fault == faults < MaxFaults /\ faults' = faults + 1

NoFault == UNCHANGED faults

\* Lines 184-203: the job starts; it suspends in the first SELECT.
StartCycle(r) ==
    /\ pc[r] = "idle"
    /\ stats.total_cycles < MaxCycles
    /\ stats' = [stats EXCEPT !.total_cycles = @ + 1]
    /\ cycle_stats' = [cycle_stats EXCEPT ![r] = NewCycleStats]
    /\ pc' = [pc EXCEPT ![r] = "load_simple"]
    /\ UNCHANGED <<now, is_running, enable_whatsapp, lifecycle,
                   evaluation, dispatch, fetching, alerts, advanced_alerts,
                   alert_trigger_history, active_alerts, adv_rows, idx,
                   triggered, delivery, last_sent, seen, failing, totals,
                   faults>>

\* start(): lines 57-101.
Start ==
    /\ ~is_running
    /\ scheduler' = NewScheduler(monitoring_interval_minutes)
    /\ is_running' = TRUE
    /\ last_call' = Call("start", "started", 0)
    /\ UNCHANGED <<monitoring_interval_minutes, detached, sleepers,
                   evaluation, dispatch, fetching>>
    /\ UNCHANGED <<now, enable_whatsapp, alerts, advanced_alerts,
                   alert_trigger_history, stats, pc, cycle_stats,
                   active_alerts, adv_rows, idx, triggered, delivery,
                   last_sent, seen, failing, totals, faults>>

\* The interval job fires (APScheduler runs at most one instance of a job).
TimerFire == is_running /\ StartCycle("timer")

\* Variant: a manual check brings the timer up when it finds it stopped.
ManualCheckStarting ==
    /\ pc["manual"] = "idle"
    /\ stats.total_cycles < MaxCycles
    /\ stats' = [stats EXCEPT !.total_cycles = @ + 1]
    /\ cycle_stats' = [cycle_stats EXCEPT !["manual"] = NewCycleStats]
    /\ pc' = [pc EXCEPT !["manual"] = "load_simple"]
    /\ is_running' = TRUE
    /\ UNCHANGED <<now, enable_whatsapp, lifecycle,
                   evaluation, dispatch, fetching, alerts,
                   advanced_alerts, alert_trigger_history, active_alerts,
                   adv_rows, idx, triggered, delivery, last_sent, seen,
                   failing, totals, faults>>

\* trigger_manual_check(): lines 136-139.
ManualCheck == pc["manual"] = "idle" /\ StartCycle("manual")

\* Lines 356 / 227 / 365: cycle_stats has been returned; the caller takes it
\* and the coroutine's frame is dropped.
Return(r) ==
    /\ pc[r] = "done"
    /\ pc' = [pc EXCEPT ![r] = "idle"]
    /\ cycle_stats' = [cycle_stats EXCEPT ![r] = NewCycleStats]
    /\ active_alerts' = [active_alerts EXCEPT ![r] = <<>>]
    /\ adv_rows' = [adv_rows EXCEPT ![r] = <<>>]
    /\ seen' = [seen EXCEPT ![r] = <<>>]
    /\ failing' = [failing EXCEPT ![r] = {}]
    /\ UNCHANGED <<now, is_running, enable_whatsapp, lifecycle,
                   evaluation, dispatch, fetching, alerts, advanced_alerts,
                   alert_trigger_history, stats, idx, triggered, delivery,
                   last_sent, totals, faults>>

\* Lines 358-365.
FailCycle(r) ==
    Resume(r, [pc |-> "done", idx |-> 0,
               cs |-> [cycle_stats[r] EXCEPT !.error = TRUE],
               seen |-> seen[r], stats |-> CycleFailed(stats)])

\* Lines 207-216: SELECT of the simple alerts returns or raises.
LoadSimple(r) ==
    /\ pc[r] = "load_simple"
    /\ \/ /\ Fault
          /\ FailCycle(r)
          /\ UNCHANGED active_alerts
       \/ /\ NoFault
          /\ active_alerts' = [active_alerts EXCEPT ![r] = SelectActiveAlerts]
          /\ pc' = [pc EXCEPT ![r] = "load_adv"]
          /\ UNCHANGED <<idx, cycle_stats, seen, stats, totals, triggered,
                         delivery>>
    /\ UNCHANGED <<now, is_running, enable_whatsapp, lifecycle,
                   evaluation, dispatch, fetching, alerts, advanced_alerts,
                   alert_trigger_history, adv_rows, last_sent, failing>>

\* Variant: the early return forgets to count the cycle.
EmptyCycleUncounted(r) ==
    Resume(r, [pc |-> "done", idx |-> 0,
               cs |-> [cycle_stats[r] EXCEPT !.message = TRUE],
               seen |-> seen[r], stats |-> stats])

\* Lines 223-227: both result sets are empty.
EmptyCycle(r) ==
    Resume(r, [pc |-> "done", idx |-> 0,
               cs |-> [cycle_stats[r] EXCEPT !.message = TRUE],
               seen |-> seen[r], stats |-> CycleSucceeded(stats)])

\* Lines 218-247: SELECT of the advanced alerts returns or raises.
LoadAdv(r) ==
    /\ pc[r] = "load_adv"
    /\ \/ /\ Fault
          /\ FailCycle(r)
          /\ UNCHANGED adv_rows
       \/ /\ NoFault
          /\ adv_rows' = [adv_rows EXCEPT ![r] = SelectActiveAdvanced]
          /\ IF active_alerts[r] = <<>> /\ SelectActiveAdvanced = <<>>
             THEN EmptyCycle(r)
             ELSE Resume(r, EnterSimple(active_alerts[r], SelectActiveAdvanced,
                                        1, cycle_stats[r], <<>>, stats))
    /\ UNCHANGED <<now, is_running, enable_whatsapp, lifecycle,
                   evaluation, dispatch, fetching, alerts, advanced_alerts,
                   alert_trigger_history, active_alerts, last_sent, failing>>

\* Lines 375-396: get_price returns a price or raises APIError (lines
\* 385-387: logged, _check_alert returns normally).
FetchPrice(r) ==
    /\ pc[r] = "fetch"
    /\ LET a == active_alerts[r][idx[r]]
           next(cs) == EnterSimple(active_alerts[r], adv_rows[r], idx[r] + 1,
                                   cs, seen[r], stats)
       IN \/ /\ Fault
             /\ Resume(r, next(CountChecked(cycle_stats[r])))
             /\ failing' = [failing EXCEPT ![r] = @ \cup {a.id}]
          \/ \E p \in Prices :
               /\ NoFault
               /\ IF ThresholdMet(a.condition_type, a.threshold_price, p)
                  THEN /\ pc' = [pc EXCEPT ![r] = "notify"]
                       /\ triggered' = [triggered EXCEPT ![r] = TRUE]
                       /\ UNCHANGED <<idx, cycle_stats, seen, stats, totals,
                                      delivery>>
                  ELSE Resume(r, next(CountChecked(cycle_stats[r])))
               /\ UNCHANGED failing
    /\ UNCHANGED <<now, is_running, enable_whatsapp, lifecycle,
                   evaluation, dispatch, fetching, alerts, advanced_alerts,
                   alert_trigger_history, active_alerts, adv_rows, last_sent>>

\* _send_alert_notification, lines 441-464: nothing is sent when WhatsApp is
\* disabled; otherwise send_price_alert delivers or raises, and the
\* exception is swallowed.
Dispatch(r, id) ==
    IF ~enable_whatsapp
    THEN /\ NoFault
         /\ delivery' = [delivery EXCEPT ![r] = "disabled"]
         /\ UNCHANGED last_sent
    ELSE \/ /\ NoFault
            /\ delivery' = [delivery EXCEPT ![r] = "sent"]
            /\ last_sent' = [last_sent EXCEPT ![id] = <<now>>]
         \/ /\ Fault
            /\ delivery' = [delivery EXCEPT ![r] = "failed"]
            /\ UNCHANGED last_sent

\* Variant: a failed dispatch propagates out of _check_alert and is recorded
\* as the alert's error; the trigger is not persisted.
NotifyPropagating(r) ==
    /\ pc[r] = "notify"
    /\ \/ /\ NoFault
          /\ delivery' = [delivery EXCEPT ![r] = "sent"]
          /\ last_sent' = [last_sent EXCEPT
                             ![active_alerts[r][idx[r]].id] = <<now>>]
          /\ pc' = [pc EXCEPT ![r] = "update"]
          /\ UNCHANGED <<stats, cycle_stats, idx, triggered, seen, totals>>
       \/ /\ Fault
          /\ Resume(r, EnterSimple(active_alerts[r], adv_rows[r], idx[r] + 1,
                         RecordError(cycle_stats[r], active_alerts[r][idx[r]].id),
                         seen[r], stats))
          /\ UNCHANGED last_sent
    /\ UNCHANGED <<now, is_running, enable_whatsapp, lifecycle,
                   evaluation, dispatch, fetching, alerts, advanced_alerts,
                   alert_trigger_history, active_alerts, adv_rows, failing>>

\* Line 403.
Notify(r) ==
    /\ pc[r] = "notify"
    /\ Dispatch(r, active_alerts[r][idx[r]].id)
    /\ pc' = [pc EXCEPT ![r] = "update"]
    /\ UNCHANGED <<now, is_running, enable_whatsapp, lifecycle,
                   evaluation, dispatch, fetching, alerts, advanced_alerts,
                   alert_trigger_history, stats, cycle_stats, active_alerts,
                   adv_rows, idx, triggered, seen, failing, totals>>

\* Lines 406-415 with _update_alert_after_trigger, lines 466-485: the UPDATE
\* is applied, or it raises and the exception is swallowed.
UpdateAfterTrigger(r) ==
    /\ pc[r] = "update"
    /\ LET id == active_alerts[r][idx[r]].id
       IN /\ \/ /\ NoFault
                /\ alerts' = [alerts EXCEPT ![id].last_triggered = Aware(now)]
             \/ /\ Fault
                /\ UNCHANGED alerts
          /\ Resume(r, EnterSimple(active_alerts[r], adv_rows[r], idx[r] + 1,
                         CountChecked(CountTriggered(cycle_stats[r], id)),
                         seen[r], stats))
    /\ UNCHANGED <<now, is_running, enable_whatsapp, lifecycle,
                   evaluation, dispatch, fetching, advanced_alerts,
                   alert_trigger_history, active_alerts, adv_rows, last_sent,
                   failing>>

\* Line 280: evaluate_and_maybe_trigger returns or raises (lines 339-342).
AdvEvaluate(r) ==
    /\ pc[r] = "adv_eval"
    /\ LET a == adv_rows[r][idx[r]]
       IN \/ /\ Fault
             /\ Resume(r, EnterAdv(adv_rows[r], idx[r] + 1,
                                   RecordError(cycle_stats[r], a.id),
                                   seen[r], stats))
             /\ failing' = [failing EXCEPT ![r] = @ \cup {a.id}]
          \/ \E c \in ChangePcts :
               /\ NoFault
               /\ triggered' = [triggered EXCEPT ![r] =
                     EvalPercentageChange(a.direction, a.change_percentage, c)]
               /\ pc' = [pc EXCEPT ![r] = "adv_stamp"]
               /\ UNCHANGED <<idx, cycle_stats, seen, stats, totals, failing,
                              delivery>>
    /\ UNCHANGED <<now, is_running, enable_whatsapp, lifecycle,
                   evaluation, dispatch, fetching, alerts, advanced_alerts,
                   alert_trigger_history, active_alerts, adv_rows, last_sent>>

\* Lines 281-292: last_checked is stamped (a failing UPDATE is ignored);
\* a triggered alert is counted before anything is sent.
AdvStamp(r) ==
    /\ pc[r] = "adv_stamp"
    /\ LET id == adv_rows[r][idx[r]].id
       IN /\ \/ /\ NoFault
                /\ advanced_alerts' =
                      [advanced_alerts EXCEPT ![id].last_checked = <<now>>]
             \/ /\ Fault
                /\ UNCHANGED advanced_alerts
          /\ IF triggered[r]
             THEN /\ cycle_stats' = [cycle_stats EXCEPT
                                       ![r].alerts_triggered = @ + 1]
                  /\ pc' = [pc EXCEPT ![r] = "adv_notify"]
                  /\ UNCHANGED <<idx, seen, stats, totals, triggered,
                                 delivery>>
             ELSE Resume(r, EnterAdv(adv_rows[r], idx[r] + 1, cycle_stats[r],
                                     seen[r], stats))
    /\ UNCHANGED <<now, is_running, enable_whatsapp, lifecycle,
                   evaluation, dispatch, fetching, alerts,
                   alert_trigger_history, active_alerts, adv_rows, last_sent,
                   failing>>

\* Lines 294-309: get_price and _send_alert_notification inside one try;
\* any exception is logged and ignored.
AdvNotify(r) ==
    /\ pc[r] = "adv_notify"
    /\ Dispatch(r, adv_rows[r][idx[r]].id)
    /\ pc' = [pc EXCEPT ![r] = "adv_persist"]
    /\ UNCHANGED <<now, is_running, enable_whatsapp, lifecycle,
                   evaluation, dispatch, fetching, alerts, advanced_alerts,
                   alert_trigger_history, stats, cycle_stats, active_alerts,
                   adv_rows, idx, triggered, seen, failing, totals>>

\* Variant: the alert is switched off when trigger_count reaches max_triggers.
MarkTriggeredCapping(row) ==
    [row EXCEPT !.last_triggered = Aware(now), !.trigger_count = @ + 1,
                !.is_active = row.trigger_count + 1 < row.max_triggers]

\* Lines 313-316: UPDATE advanced_alerts SET last_triggered, trigger_count.
MarkTriggered(row) ==
    [row EXCEPT !.last_triggered = Aware(now), !.trigger_count = @ + 1]

\* Lines 317-335: the row inserted into alert_trigger_history.
HistoryRow(id) ==
    [alert_id |-> id, notification_status |-> "sent"]

\* Lines 310-338: UPDATE, INSERT, commit on the shared connection.  Either
\* statement can raise; the exception is logged and ignored, nothing is
\* rolled back, and the statement already executed stays in effect.
AdvPersist(r) ==
    /\ pc[r] = "adv_persist"
    /\ LET id == adv_rows[r][idx[r]].id
       IN /\ \/ /\ NoFault
                /\ advanced_alerts' = [advanced_alerts EXCEPT
                                         ![id] = MarkTriggered(@)]
                /\ alert_trigger_history' =
                      Append(alert_trigger_history, HistoryRow(id))
             \/ /\ Fault
                /\ advanced_alerts' = [advanced_alerts EXCEPT
                                         ![id] = MarkTriggered(@)]
                /\ UNCHANGED alert_trigger_history
             \/ /\ Fault
                /\ UNCHANGED <<advanced_alerts, alert_trigger_history>>
          /\ Resume(r, EnterAdv(adv_rows[r], idx[r] + 1, cycle_stats[r],
                                seen[r], stats))
    /\ UNCHANGED <<now, is_running, enable_whatsapp, lifecycle,
                   evaluation, dispatch, fetching, alerts, active_alerts,
                   adv_rows, last_sent, failing>>

\* Time passes.  The clock is coarse: a tick is longer than a cycle, so the
\* clock is only seen to advance while no cycle is in flight.
Tick ==
    /\ now < MaxTime
    /\ \A r \in Runners : pc[r] \in {"idle", "done"}
    /\ now' = now + 1
    /\ UNCHANGED <<is_running, enable_whatsapp, lifecycle,
                   evaluation, dispatch, fetching, alerts, advanced_alerts,
                   alert_trigger_history, stats, pc, cycle_stats,
                   active_alerts, adv_rows, idx, triggered, delivery,
                   last_sent, seen, failing, totals, faults>>

Step(r) ==
    \/ LoadSimple(r)
    \/ LoadAdv(r)
    \/ FetchPrice(r)
    \/ Notify(r)
    \/ UpdateAfterTrigger(r)
    \/ AdvEvaluate(r)
    \/ AdvStamp(r)
    \/ AdvNotify(r)
    \/ AdvPersist(r)
    \/ Return(r)

Next ==
    \/ Start
    \/ TimerFire
    \/ ManualCheck
    \/ \E r \in Runners : Step(r)
    \/ Tick

Spec == Init /\ [][Next]_vars

TypeOK ==
    /\ now \in 0..MaxTime
    /\ is_running \in BOOLEAN
    /\ \A r \in Runners : pc[r] \in {"idle", "done", "load_simple", "load_adv",
          "fetch", "notify", "update", "adv_eval", "adv_stamp", "adv_notify",
          "adv_persist"}
    /\ stats.total_cycles \in 0..MaxCycles
    /\ faults \in 0..MaxFaults


\* ------------------------------------------------ the scheduler's life
\* The coroutine of caller r's cycle is suspended at an await.
InFlight(r) == pc[r] \notin {"idle", "done"}

\* The frame of a running _price_monitoring_job coroutine.
job_vars == <<pc, cycle_stats, active_alerts, adv_rows, idx, triggered,
              delivery, seen, failing>>

\* What only the cycle's steps and the clock write.
tables == <<now, enable_whatsapp, alerts, advanced_alerts,
            alert_trigger_history, stats, last_sent, totals, faults>>

\* Running interval timers: self.scheduler when running, and any running
\* scheduler self.scheduler no longer refers to.
ActiveTimers == detached + (IF scheduler.running THEN 1 ELSE 0)

\* Lines 64-89 of start(): a new AsyncIOScheduler with the job is started.
Boot ==
    /\ scheduler' = NewScheduler(monitoring_interval_minutes)
    /\ is_running' = TRUE

\* The executor cancels the task of the job it is running; CancelledError is
\* not an Exception, so no handler of the cycle catches it.
Cancel(r) ==
    /\ pc' = [pc EXCEPT ![r] = "idle"]
    /\ cycle_stats' = [cycle_stats EXCEPT ![r] = NewCycleStats]
    /\ active_alerts' = [active_alerts EXCEPT ![r] = <<>>]
    /\ adv_rows' = [adv_rows EXCEPT ![r] = <<>>]
    /\ idx' = [idx EXCEPT ![r] = 0]
    /\ triggered' = [triggered EXCEPT ![r] = FALSE]
    /\ delivery' = [delivery EXCEPT ![r] = "none"]
    /\ seen' = [seen EXCEPT ![r] = <<>>]
    /\ failing' = [failing EXCEPT ![r] = {}]

\* Lines 119-121: scheduler.shutdown(wait=True) is a plain call inside the
\* coroutine stop(): it returns at once; the executor either leaves the
\* running job alone or cancels it, depending on the APScheduler release.
Shutdown ==
    /\ scheduler' = [scheduler EXCEPT !.running = FALSE]
    /\ is_running' = FALSE
    /\ \/ UNCHANGED job_vars
       \/ InFlight("timer") /\ Cancel("timer")

\* Variant: start() builds a second scheduler next to the running one.
StartWhileRunningDuplicating ==
    /\ scheduler.running
    /\ detached' = detached + 1
    /\ Boot
    /\ last_call' = Call("start", "started", 0)
    /\ UNCHANGED <<monitoring_interval_minutes, sleepers, job_vars, tables,
                   evaluation, dispatch, fetching>>

\* start(), lines 59-61: already running.
StartWhileRunning ==
    /\ scheduler.running
    /\ last_call' = Call("start", "noop", 0)
    /\ UNCHANGED <<monitoring_interval_minutes, scheduler, detached, sleepers,
                   is_running, job_vars, tables, evaluation, dispatch, fetching>>

\* stop(), lines 115-117: not running.
StopWhileStopped ==
    /\ ~scheduler.running
    /\ last_call' = Call("stop", "noop", 0)
    /\ UNCHANGED <<monitoring_interval_minutes, scheduler, detached, sleepers,
                   is_running, job_vars, tables, evaluation, dispatch, fetching>>

\* stop(), lines 119-122.
Stop ==
    /\ scheduler.running
    /\ Shutdown
    /\ last_call' = Call("stop", "stopped", 0)
    /\ UNCHANGED <<monitoring_interval_minutes, detached, sleepers, tables,
                   evaluation, dispatch, fetching>>

\* restart(), lines 131-133: stop(), then the coroutine sleeps.
Restart ==
    /\ sleepers < MaxSleepers
    /\ IF scheduler.running THEN Shutdown
       ELSE UNCHANGED <<scheduler, is_running, job_vars>>
    /\ sleepers' = sleepers + 1
    /\ last_call' = Call("restart", "sleeping", 0)
    /\ UNCHANGED <<monitoring_interval_minutes, detached, tables, evaluation,
                   dispatch, fetching>>

\* restart(), line 134: the sleep is over, start().
RestartWake ==
    /\ sleepers > 0
    /\ sleepers' = sleepers - 1
    /\ IF scheduler.running
       THEN /\ UNCHANGED <<scheduler, is_running>>
            /\ last_call' = Call("restart", "noop", 0)
       ELSE /\ Boot
            /\ last_call' = Call("restart", "started", 0)
    /\ UNCHANGED <<monitoring_interval_minutes, detached, job_vars, tables,
                   evaluation, dispatch, fetching>>

UpdateMinutes == {0, 1, 60, 61}

\* Variant: the range check is missing.
UpdateIntervalUnchecked(minutes) ==
    /\ monitoring_interval_minutes' = minutes
    /\ last_call' = Call("update_interval", "accepted", minutes)
    /\ IF scheduler.running
       THEN /\ sleepers < MaxSleepers
            /\ Shutdown
            /\ sleepers' = sleepers + 1
       ELSE UNCHANGED <<scheduler, is_running, job_vars, sleepers>>
    /\ UNCHANGED <<detached, tables, evaluation, dispatch, fetching>>

\* update_interval(minutes), lines 167-178.
UpdateInterval(minutes) ==
    IF ~(MinInterval <= minutes /\ minutes <= MaxInterval)
    THEN /\ last_call' = Call("update_interval", "ValueError", minutes)
         /\ UNCHANGED <<monitoring_interval_minutes, scheduler, detached,
                        sleepers, is_running, job_vars, tables, evaluation,
                        dispatch, fetching>>
    ELSE /\ monitoring_interval_minutes' = minutes
         /\ last_call' = Call("update_interval", "accepted", minutes)
         /\ IF scheduler.running
            THEN /\ sleepers < MaxSleepers
                 /\ Shutdown
                 /\ sleepers' = sleepers + 1
            ELSE UNCHANGED <<scheduler, is_running, job_vars, sleepers>>
         /\ UNCHANGED <<detached, tables, evaluation, dispatch, fetching>>

\* One active simple alert and one active advanced alert; the scheduler has
\* not been started.
LifeInit ==
    /\ now = 0
    /\ is_running = FALSE
    /\ enable_whatsapp = TRUE
    /\ alerts = [a \in SimpleIds |->
                   [is_active |-> a = 1,
                    condition_type |-> IF a = 1 THEN ">=" ELSE "<=",
                    threshold_price |-> 2,
                    last_triggered |-> NoTime]]
    /\ advanced_alerts = [a \in AdvIds |->
                   [is_active |-> TRUE, direction |-> "up",
                    change_percentage |-> 5, last_triggered |-> NoTime,
                    last_checked |-> NoTime, trigger_count |-> 0,
                    max_triggers |-> 1, expiry_date |-> Aware(1)]]
    /\ alert_trigger_history = <<>>
    /\ stats = NewStats
    /\ pc = [r \in Runners |-> "idle"]
    /\ cycle_stats = [r \in Runners |-> NewCycleStats]
    /\ active_alerts = [r \in Runners |-> <<>>]
    /\ adv_rows = [r \in Runners |-> <<>>]
    /\ idx = [r \in Runners |-> 0]
    /\ triggered = [r \in Runners |-> FALSE]
    /\ delivery = [r \in Runners |-> "none"]
    /\ last_sent = [a \in SimpleIds \cup AdvIds |-> NoTime]
    /\ seen = [r \in Runners |-> <<>>]
    /\ failing = [r \in Runners |-> {}]
    /\ totals = [alerts_checked |-> 0, alerts_triggered |-> 0]
    /\ faults = MaxFaults      \* no collaborator fails in these behaviours
    /\ monitoring_interval_minutes = DefaultInterval
    /\ scheduler = NoScheduler
    /\ detached = 0
    /\ sleepers = 0
    /\ last_call = NoCall
    /\ eval_in = NoEval
    /\ eval_out = NoEval
    /\ DispatchIdle

LifeNext ==
    \/ Start
    \/ StartWhileRunning
    \/ Stop
    \/ StopWhileStopped
    \/ Restart
    \/ RestartWake
    \/ \E minutes \in UpdateMinutes : UpdateInterval(minutes)
    \/ TimerFire
    \/ Step("timer")

LifeSpec == LifeInit /\ [][LifeNext]_vars

\* ------------------------------------------------------- the evaluators
\* A condition parameter as stored in the conditions JSON.
Missing == <<"missing">>

Malformed == <<"malformed">>

Num(x) == <<"num", x>>

\* float(cond.get(key, default)) / int(cond.get(key, default)): raises
\* ValueError on text that is not a number.
ParseRaises(param) == param = Malformed

ParseNumber(param, default) == IF param = Missing THEN default ELSE param[2]

\* What an evaluator hands back: (meets, ctx) or an exception.
Returned(meets, reason) ==
    [outcome |-> "returned", triggered |-> meets, reason |-> reason]

Raised(exception) ==
    [outcome |-> "raised", triggered |-> FALSE, reason |-> exception]

\* Lines 224-239: change_pct from the comparison base.
ChangePct(asset_type, comparison_base, base_price, feed) ==
    IF comparison_base = "baseline"
    THEN LET base == ParseNumber(base_price, feed.price)
         IN IF base # 0 THEN ((feed.price - base) * 100) \div base ELSE 0
    ELSE IF asset_type = "stock" /\ comparison_base = "previous_close"
    THEN IF feed.previous_close # 0
         THEN ((feed.price - feed.previous_close) * 100)
                 \div feed.previous_close
         ELSE 0
    ELSE feed.change_24h

\* _eval_percentage_change, lines 216-246.
PercentageChange(asset_type, cond, feed) ==
    LET direction == IF cond.direction = "missing" THEN "any"
                     ELSE cond.direction
        comparison_base == IF cond.comparison_base = "missing" THEN "24h"
                           ELSE cond.comparison_base
    IN IF ParseRaises(cond.change_percentage) THEN Raised("ValueError")
       ELSE IF feed.fails THEN Raised("APIError")
       ELSE IF comparison_base = "baseline" /\ ParseRaises(cond.base_price)
       THEN Raised("ValueError")
       ELSE Returned(
              EvalPercentageChange(
                 direction, ParseNumber(cond.change_percentage, 0),
                 ChangePct(asset_type, comparison_base, cond.base_price, feed)),
              "none")

\* Variant: a crossing also fires when the prior point sits on the threshold.
CrossesInclusive(operator, prev, threshold, curr) ==
    \/ operator = "crosses_above" /\ prev <= threshold /\ threshold <= curr
    \/ operator = "crosses_below" /\ prev >= threshold /\ threshold >= curr

\* Lines 286-289.
Crosses(operator, prev, threshold, curr) ==
    \/ operator = "crosses_above" /\ prev < threshold /\ threshold <= curr
    \/ operator = "crosses_below" /\ prev > threshold /\ threshold >= curr

\* Lines 281-285.
Compares(operator, threshold, curr) ==
    \/ operator = "greater_than" /\ curr >= threshold
    \/ operator = "less_than" /\ curr <= threshold

CrossOperators == {"crosses_above", "crosses_below"}

\* _eval_technical_indicator, lines 249-291.  feed.series is what the
\* provider's "Technical Analysis" block parses to; with no block at all the
\* provider raises APIError, and the single-value getters raise when the
\* latest point is missing.
TechnicalIndicator(asset_type, cond, feed) ==
    LET operator == IF cond.operator = "missing" THEN "greater_than"
                    ELSE cond.operator
        threshold == ParseNumber(cond.threshold, 0)
        series == feed.series
    IN IF ParseRaises(cond.threshold) \/ ParseRaises(cond.period)
       THEN Raised("ValueError")
       ELSE IF asset_type # "stock"
       THEN Returned(FALSE, "indicators_supported_for_stocks_only")
       ELSE IF cond.indicator \notin {"rsi", "sma"}
       THEN Returned(FALSE, "unsupported_indicator")
       ELSE IF feed.fails THEN Raised("APIError")
       ELSE IF operator \in CrossOperators
       THEN IF Len(series) < 2 THEN Returned(FALSE, "insufficient_points")
            ELSE Returned(Crosses(operator, series[1], threshold, series[2]),
                          "none")
       ELSE IF Len(series) = 0 THEN Raised("APIError")
       ELSE Returned(Compares(operator, threshold, series[Len(series)]),
                     "none")

\* evaluate_and_maybe_trigger, lines 199-213.
EvaluateAndMaybeTrigger(row, feed) ==
    IF row.conditions_form = "bad_json" THEN Raised("JSONDecodeError")
    ELSE IF row.alert_type = "percentage_change"
    THEN PercentageChange(row.asset_type, row.conditions, feed)
    ELSE IF row.alert_type = "technical_indicator"
    THEN TechnicalIndicator(row.asset_type, row.conditions, feed)
    ELSE Returned(FALSE, "unsupported_type")

\* Alert.is_in_cooldown (models/alert.py): a timestamp without offset is
\* read as UTC.
AlertIsInCooldown(last_triggered, t) ==
    IF last_triggered = NoTime THEN FALSE
    ELSE t - last_triggered[2] < CooldownTicks

\* MonitoringScheduler._is_in_cooldown as called by _check_alert.
SchedulerIsInCooldown(last_triggered, t) ==
    IF CooldownRaises(last_triggered) THEN Raised("TypeError")
    ELSE Returned(IsInCooldown(last_triggered, t), "none")

\* ---------------------------------------- the evaluators, called alone
\* Everything the monitoring cycle reads and writes.
monitoring == <<now, is_running, enable_whatsapp, alerts, advanced_alerts,
                alert_trigger_history, stats, pc, cycle_stats, active_alerts,
                adv_rows, idx, triggered, delivery, last_sent, seen, failing,
                totals, faults>>

Params == {Missing, Malformed, Num(-5), Num(0), Num(5)}

AssetTypes == {"stock", "crypto"}

\* What the price and indicator providers answer.
Feeds ==
    [fails : {FALSE}, price : {94, 95, 100, 105, 106},
     previous_close : {100}, change_24h : {-5, 0, 5}, series : {<<>>}]
    \cup
    [fails : {TRUE}, price : {100}, previous_close : {100},
     change_24h : {0}, series : {<<>>}]

IndicatorPoints == {65, 70, 75}

SeriesFeeds ==
    [fails : {FALSE}, price : {100}, previous_close : {100}, change_24h : {0},
     series : {<<>>} \cup {<<v>> : v \in IndicatorPoints}
                \cup (IndicatorPoints \X IndicatorPoints)]
    \cup
    [fails : {TRUE}, price : {100}, previous_close : {100},
     change_24h : {0}, series : {<<>>}]

NoPctCond ==
    [direction |-> "missing", change_percentage |-> Missing,
     comparison_base |-> "missing", base_price |-> Missing]

NoTechCond ==
    [indicator |-> "missing", operator |-> "missing", threshold |-> Missing,
     period |-> Missing]

PctConds ==
    [direction : {"up", "down", "any", "sideways", "missing"},
     change_percentage : Params,
     comparison_base : {"baseline", "previous_close", "24h", "missing"},
     base_price : {Missing, Num(100)}]

TechConds ==
    [indicator : {"rsi", "sma", "macd"},
     operator : {"greater_than", "less_than", "crosses_above",
                 "crosses_below", "equals", "missing"},
     threshold : {Missing, Malformed, Num(70)},
     period : {Missing, Malformed}]

ConditionInputs ==
    [fn : {"_check_alert"}, condition_type : {">=", "<=", "==", ">"},
     threshold_price : {2}, current_price : Prices]

Stamps ==
    {NoTime} \cup {Aware(t) : t \in 0..MaxTime} \cup {Naive(t) : t \in 0..MaxTime}

CooldownInputs ==
    [fn : {"_is_in_cooldown", "Alert.is_in_cooldown"},
     last_triggered : Stamps, now : 0..(MaxTime + CooldownTicks)]

PctInputs ==
    [fn : {"_eval_percentage_change"}, asset_type : AssetTypes,
     cond : PctConds, feed : Feeds]

TechInputs ==
    [fn : {"_eval_technical_indicator"}, asset_type : AssetTypes,
     cond : TechConds, feed : SeriesFeeds]

AlertRows ==
    [asset_type : AssetTypes, alert_type : {"percentage_change"},
     conditions_form : {"dict", "json", "bad_json"},
     conditions : [direction : {"up", "missing"},
                   change_percentage : {Missing, Malformed, Num(5)},
                   comparison_base : {"24h"}, base_price : {Missing}]]
    \cup
    [asset_type : AssetTypes, alert_type : {"technical_indicator"},
     conditions_form : {"dict", "json", "bad_json"},
     conditions : [indicator : {"rsi", "macd", "missing"},
                   operator : {"greater_than", "crosses_above"},
                   threshold : {Missing, Malformed, Num(70)},
                   period : {Missing, Malformed}]]
    \cup
    [asset_type : AssetTypes, alert_type : {"volume_spike"},
     conditions_form : {"dict", "json", "bad_json"},
     conditions : {NoPctCond}]

RowFeeds ==
    {f \in Feeds : f.price \in {100, 105} /\ f.change_24h \in {0, 5}}
    \cup {f \in SeriesFeeds : f.fails \/ Len(f.series) = 1
                               \/ f.series = <<65, 75>>}

EvaluateInputs ==
    [fn : {"evaluate_and_maybe_trigger"}, row : AlertRows, feed : RowFeeds]

EvalInputs ==
    ConditionInputs \cup CooldownInputs \cup PctInputs \cup TechInputs
    \cup EvaluateInputs

EvalInit ==
    /\ now = 0
    /\ is_running = FALSE
    /\ enable_whatsapp = TRUE
    /\ alerts = [a \in SimpleIds |->
                   [is_active |-> FALSE,
                    condition_type |-> IF a = 1 THEN ">=" ELSE "<=",
                    threshold_price |-> 2,
                    last_triggered |-> NoTime]]
    /\ advanced_alerts = [a \in AdvIds |->
                   [is_active |-> FALSE, direction |-> "up",
                    change_percentage |-> 5, last_triggered |-> NoTime,
                    last_checked |-> NoTime, trigger_count |-> 0,
                    max_triggers |-> 1, expiry_date |-> Aware(1)]]
    /\ alert_trigger_history = <<>>
    /\ stats = NewStats
    /\ pc = [r \in Runners |-> "idle"]
    /\ cycle_stats = [r \in Runners |-> NewCycleStats]
    /\ active_alerts = [r \in Runners |-> <<>>]
    /\ adv_rows = [r \in Runners |-> <<>>]
    /\ idx = [r \in Runners |-> 0]
    /\ triggered = [r \in Runners |-> FALSE]
    /\ delivery = [r \in Runners |-> "none"]
    /\ last_sent = [a \in SimpleIds \cup AdvIds |-> NoTime]
    /\ seen = [r \in Runners |-> <<>>]
    /\ failing = [r \in Runners |-> {}]
    /\ totals = [alerts_checked |-> 0, alerts_triggered |-> 0]
    /\ faults = 0
    /\ monitoring_interval_minutes = DefaultInterval
    /\ scheduler = NoScheduler
    /\ detached = 0
    /\ sleepers = 0
    /\ last_call = NoCall
    /\ eval_in \in EvalInputs
    /\ eval_out = NoEval
    /\ DispatchIdle

\* The evaluator named by eval_in is called and eval_out takes its result.
Applies(result) ==
    /\ eval_out = NoEval
    /\ eval_out' = result
    /\ UNCHANGED <<monitoring, lifecycle, dispatch, fetching, eval_in>>

CheckCondition ==
    /\ eval_in.fn = "_check_alert"
    /\ Applies(
            Returned(ThresholdMet(eval_in.condition_type,
                                  eval_in.threshold_price,
                                  eval_in.current_price), "none"))

CheckCooldown ==
    /\ eval_in.fn = "_is_in_cooldown"
    /\ Applies(
            SchedulerIsInCooldown(eval_in.last_triggered, eval_in.now))

CheckAlertCooldown ==
    /\ eval_in.fn = "Alert.is_in_cooldown"
    /\ Applies(
            Returned(AlertIsInCooldown(eval_in.last_triggered, eval_in.now),
                     "none"))

EvalPct ==
    /\ eval_in.fn = "_eval_percentage_change"
    /\ Applies(
            PercentageChange(eval_in.asset_type, eval_in.cond, eval_in.feed))

EvalTech ==
    /\ eval_in.fn = "_eval_technical_indicator"
    /\ Applies(
            TechnicalIndicator(eval_in.asset_type, eval_in.cond, eval_in.feed))

Evaluate ==
    /\ eval_in.fn = "evaluate_and_maybe_trigger"
    /\ Applies(
            EvaluateAndMaybeTrigger(eval_in.row, eval_in.feed))

EvalNext ==
    \/ CheckCondition
    \/ CheckCooldown
    \/ CheckAlertCooldown
    \/ EvalPct
    \/ EvalTech
    \/ Evaluate

EvalSpec == EvalInit /\ [][EvalNext]_vars

\* ------------------------------------------------------------ vocabulary
AllIds == SimpleIds \cup AdvIds

InSimpleLoop(r) == pc[r] \in {"fetch", "notify", "update"}

InAdvLoop(r) == pc[r] \in {"adv_eval", "adv_stamp", "adv_notify", "adv_persist"}

\* The alert the cycle of caller r is working on.
CurrentId(r) ==
    IF InSimpleLoop(r) THEN active_alerts[r][idx[r]].id
    ELSE IF InAdvLoop(r) THEN adv_rows[r][idx[r]].id
    ELSE 0

\* The step delivers a notification for alert a.
Dispatched(a) ==
    \E r \in Runners :
        /\ pc[r] \in {"notify", "adv_notify"}
        /\ pc'[r] # pc[r]
        /\ delivery'[r] = "sent"
        /\ CurrentId(r) = a

\* The stored last_triggered of alert a.
StoredLastTriggered(a) ==
    IF a \in SimpleIds THEN alerts[a].last_triggered
    ELSE advanced_alerts[a].last_triggered

\* Alert a is inside its cooldown window according to the tables.
CoolingDown(a) ==
    /\ StoredLastTriggered(a) # NoTime
    /\ StoredLastTriggered(a)[1] = "aware"
    /\ IsInCooldown(StoredLastTriggered(a), now)

RowsOf(history, a) ==
    Cardinality({k \in 1..Len(history) : history[k].alert_id = a})

HistoryRowsOf(a) == RowsOf(alert_trigger_history, a)

Ids(rows) == [k \in 1..Len(rows) |-> rows[k].id]

Range(q) == {q[k] : k \in 1..Len(q)}

\* The step in which the cycle of caller r returns its cycle_stats.
Returns(r) == pc[r] # "done" /\ pc'[r] = "done"

\* The step is a step of caller r's cycle in which a collaborator failed.
FailsAt(r, where) ==
    pc[r] \in where /\ pc'[r] # pc[r] /\ faults' = faults + 1

\* ------------------------------------------------------------------ C1
\* C1: an active alert (simple or advanced) whose stored last_triggered lies
\* within the cooldown window is suppressed: no step delivers a notification
\* for it, changes its last_triggered or trigger_count, or appends a
\* trigger-history row for it.
C1_CooldownSuppresses ==
    [][\A a \in AllIds :
          CoolingDown(a) =>
             /\ ~Dispatched(a)
             /\ StoredLastTriggered(a)' = StoredLastTriggered(a)
             /\ a \in AdvIds =>
                  /\ advanced_alerts'[a].trigger_count =
                        advanced_alerts[a].trigger_count
                  /\ HistoryRowsOf(a)' = HistoryRowsOf(a)]_vars

\* ------------------------------------------------------------------ C2
\* C2: two notifications for the same alert are never delivered less than
\* cooldown_hours*3600 seconds apart.
C2_NotificationsSpaced ==
    [][\A a \in AllIds :
          Dispatched(a) /\ last_sent[a] # NoTime =>
             now - last_sent[a][1] >= CooldownTicks]_vars

\* ------------------------------------------------------------------ C3
\* C3: no two executions of the monitoring cycle are in flight at the same
\* time.
C3_NoOverlappingCycles ==
    Cardinality({r \in Runners : InFlight(r)}) <= 1

\* ------------------------------------------------------------------ C4
\* The alerts of the loaded rows whose cooldown check raises, and the advanced
\* alerts whose evaluation raised.
RaisedIn(r) ==
    {active_alerts[r][k].id : k \in
        {j \in 1..Len(active_alerts[r]) :
            CooldownRaises(active_alerts[r][j].last_triggered)}}
    \cup (failing[r] \cap AdvIds)

\* C4: a cycle whose load phase did not fail visits every loaded alert exactly
\* once, simple alerts first, whatever exceptions earlier alerts raised; every
\* alert whose processing raised has exactly one entry in the errors list;
\* and the step that ends the cycle counts it as successful, not as failed.
C4_EveryAlertVisitedOnce ==
    [][\A r \in Runners :
          Returns(r) /\ ~FailsAt(r, {"load_simple", "load_adv"}) =>
             /\ seen'[r] = Ids(active_alerts'[r]) \o Ids(adv_rows'[r])
             /\ Range(cycle_stats'[r].errors) = RaisedIn(r)'
             /\ Len(cycle_stats'[r].errors) = Cardinality(RaisedIn(r)')
             /\ ~cycle_stats'[r].error
             /\ stats'.successful_cycles = stats.successful_cycles + 1
             /\ stats'.failed_cycles = stats.failed_cycles]_vars

\* A cycle returned successfully although one simple alert and the advanced
\* alert raised; all three loaded alerts were visited.
C4_Witness ==
    \E r \in Runners :
        /\ pc[r] = "done"
        /\ ~cycle_stats[r].error
        /\ Len(seen[r]) = 3
        /\ Len(cycle_stats[r].errors) = 2
        /\ stats.successful_cycles >= 1

\* ------------------------------------------------------------------ C5
\* C5: in the statistics a cycle returns, the errors list has one entry per
\* alert that failed (its processing raised or its price fetch failed), and
\* alerts_checked does not count the simple alerts that failed.
C5_FetchFailureCounted ==
    \A r \in Runners :
        pc[r] = "done" /\ ~cycle_stats[r].error =>
           /\ Len(cycle_stats[r].errors) =
                 Cardinality(RaisedIn(r) \cup failing[r])
           /\ cycle_stats[r].alerts_checked <=
                 Len(active_alerts[r])
                   - Cardinality((RaisedIn(r) \cup failing[r]) \cap SimpleIds)

\* ------------------------------------------------------------------ C6
\* C6: when a SELECT of the load phase fails, that step ends the cycle with an
\* error in the returned statistics, failed_cycles grows by exactly 1,
\* successful_cycles is unchanged, last_error is set, no alert was visited or
\* counted, no notification is sent, no table is written, and the timer
\* keeps running.
C6_LoadFailureFailsCycle ==
    [][\A r \in Runners :
          FailsAt(r, {"load_simple", "load_adv"}) =>
             /\ pc'[r] = "done"
             /\ cycle_stats'[r].error
             /\ stats'.failed_cycles = stats.failed_cycles + 1
             /\ stats'.successful_cycles = stats.successful_cycles
             /\ stats'.total_cycles = stats.total_cycles
             /\ stats'.last_error
             /\ seen'[r] = <<>>
             /\ cycle_stats'[r].alerts_checked = 0
             /\ cycle_stats'[r].alerts_triggered = 0
             /\ UNCHANGED <<alerts, advanced_alerts, alert_trigger_history,
                            last_sent, is_running>>]_vars

\* After a failed cycle the timer is still running and a later timer cycle
\* has loaded its alerts and returned successfully.
C6_Witness ==
    /\ stats.failed_cycles = 1
    /\ stats.last_error
    /\ is_running
    /\ pc["timer"] = "done"
    /\ ~cycle_stats["timer"].error
    /\ cycle_stats["timer"].alerts_checked > 0
    /\ stats.successful_cycles = 1
    /\ stats.total_cycles = 2

\* ------------------------------------------------------------------ C7
\* C7: the step in which a cycle finds both result sets empty returns
\* alerts_checked = 0 and alerts_triggered = 0, raises successful_cycles by
\* exactly 1 and leaves failed_cycles, alerts_processed and alerts_triggered
\* alone; total_cycles was raised by exactly 1 when the cycle started and by
\* no other step.
C7_EmptyCycle ==
    [][/\ \A r \in Runners :
            /\ pc[r] = "load_adv"
            /\ pc'[r] # pc[r]
            /\ faults' = faults
            /\ active_alerts[r] = <<>>
            /\ adv_rows'[r] = <<>>
            => /\ pc'[r] = "done"
               /\ cycle_stats'[r].alerts_checked = 0
               /\ cycle_stats'[r].alerts_triggered = 0
               /\ ~cycle_stats'[r].error
               /\ stats'.successful_cycles = stats.successful_cycles + 1
               /\ stats'.failed_cycles = stats.failed_cycles
               /\ stats'.alerts_processed = stats.alerts_processed
               /\ stats'.alerts_triggered = stats.alerts_triggered
               /\ stats'.total_cycles = stats.total_cycles
       /\ stats'.total_cycles =
             stats.total_cycles
               + Cardinality({r \in Runners :
                                pc[r] = "idle" /\ pc'[r] = "load_simple"})
      ]_vars

\* A cycle over empty tables has returned.
C7_Witness ==
    \E r \in Runners :
        /\ pc[r] = "done"
        /\ cycle_stats[r].message
        /\ active_alerts[r] = <<>>
        /\ adv_rows[r] = <<>>
        /\ stats.successful_cycles = 1
        /\ stats.total_cycles = 1

\* ------------------------------------------------------------------ C8
\* C8: whenever no cycle is in flight, the global counters alerts_processed
\* and alerts_triggered equal the sums of alerts_checked and alerts_triggered
\* over the statistics returned by all cycles so far.
C8_GlobalTotalsMatch ==
    (\A r \in Runners : ~InFlight(r)) =>
       /\ stats.alerts_processed = totals.alerts_checked
       /\ stats.alerts_triggered = totals.alerts_triggered

\* ------------------------------------------------------------------ C9
\* C9: when the dispatch of a triggered alert's notification fails, the cycle
\* goes on to persist the trigger and records no error for the alert; the
\* persisting step
\* then marks the alert triggered unless the storage fails too (last_triggered
\* is set, and for an advanced alert trigger_count grows by 1 and one history
\* row is appended), the cycle's triggered count includes the alert, and the
\* cycle continues with the next alert or returns successfully.
C9_DispatchFailureSwallowed ==
    [][\A r \in Runners :
          /\ FailsAt(r, {"notify", "adv_notify"}) =>
               /\ pc'[r] = (IF pc[r] = "notify" THEN "update" ELSE "adv_persist")
               /\ delivery'[r] = "failed"
               /\ cycle_stats'[r] = cycle_stats[r]
               /\ idx'[r] = idx[r]
          /\ delivery[r] = "failed" /\ pc'[r] # pc[r] =>
               LET a == CurrentId(r)
               IN /\ pc[r] \in {"update", "adv_persist"}
                  /\ a \notin Range(cycle_stats'[r].errors)
                  /\ ~cycle_stats'[r].error
                  /\ pc[r] = "update" =>
                       /\ cycle_stats'[r].alerts_triggered =
                             cycle_stats[r].alerts_triggered + 1
                       /\ cycle_stats'[r].alerts_checked >
                             cycle_stats[r].alerts_checked
                       /\ a \in Range(cycle_stats'[r].triggered_alerts)
                       /\ faults' = faults =>
                             alerts'[a].last_triggered = Aware(now)
                       /\ pc'[r] \in {"fetch", "adv_eval", "done"}
                  /\ pc[r] = "adv_persist" =>
                       /\ cycle_stats'[r].alerts_triggered =
                             cycle_stats[r].alerts_triggered
                       /\ cycle_stats[r].alerts_triggered >= 1
                       /\ faults' = faults =>
                             /\ advanced_alerts'[a].last_triggered = Aware(now)
                             /\ advanced_alerts'[a].trigger_count =
                                   advanced_alerts[a].trigger_count + 1
                             /\ RowsOf(alert_trigger_history', a) =
                                   HistoryRowsOf(a) + 1
                       /\ pc'[r] \in {"adv_eval", "done"}
                  /\ pc'[r] = "done" =>
                       stats'.successful_cycles = stats.successful_cycles + 1
                  /\ pc'[r] # "done" => seen'[r] # seen[r]]_vars

\* A simple alert whose notification failed was marked triggered and counted,
\* and the cycle went on to the advanced alert.
C9_Witness ==
    \E r \in Runners :
        /\ pc[r] = "adv_eval"
        /\ faults = 1
        /\ cycle_stats[r].alerts_triggered = 1
        /\ cycle_stats[r].errors = <<1>>
        /\ alerts[2].last_triggered # NoTime
        /\ last_sent[2] = NoTime

\* ------------------------------------------------------------------ C10
\* C10: for every advanced alert the trigger_count equals the number of
\* trigger-history rows that reference it.
C10_TriggerCountMatchesHistory ==
    \A a \in AdvIds :
        advanced_alerts[a].trigger_count = HistoryRowsOf(a)

\* ------------------------------------------------------------------ C11
\* C11: when persisting a triggered alert's update fails (the UPDATE of a
\* simple alert's last_triggered, or the UPDATE / history INSERT of an advanced
\* alert), the step records the alert in the cycle's errors list, and the
\* cycle goes on to the next alert or returns successfully.
C11_PersistFailureRecorded ==
    [][\A r \in Runners : \A a \in AllIds :
          FailsAt(r, {"update", "adv_persist"}) /\ a = CurrentId(r) =>
             /\ a \in Range(cycle_stats'[r].errors)
             /\ pc'[r] \in {"fetch", "adv_eval", "done"}
             /\ ~cycle_stats'[r].error]_vars

\* ---------------------------------------------- vocabulary, evaluators
\* The evaluator fn has been called on eval_in and eval_out is its result.
Called(fn) == eval_in.fn = fn /\ eval_out # NoEval

\* A non-triggering result that carries a diagnostic reason.
Diagnosed(result) ==
    /\ result.outcome = "returned"
    /\ ~result.triggered
    /\ result.reason # "none"

\* The conditions of the row are not usable: the JSON text does not parse, a
\* numeric parameter is absent or is not a number.
BadConditions(row) ==
    \/ row.conditions_form = "bad_json"
    \/ /\ row.alert_type = "percentage_change"
       /\ row.conditions.change_percentage \in {Missing, Malformed}
    \/ /\ row.alert_type = "technical_indicator"
       /\ \/ row.conditions.threshold \in {Missing, Malformed}
          \/ row.conditions.period = Malformed
          \/ row.conditions.indicator = "missing"

\* ------------------------------------------------------------------ C12
\* C12: evaluate_and_maybe_trigger never raises, and for an unknown alert
\* kind and for malformed or missing condition parameters it returns
\* not-triggered together with a diagnostic reason.
C12_EvaluationNeverRaises ==
    Called("evaluate_and_maybe_trigger") =>
       /\ eval_out.outcome = "returned"
       /\ eval_in.row.alert_type
             \notin {"percentage_change", "technical_indicator"}
          => Diagnosed(eval_out)
       /\ BadConditions(eval_in.row) => Diagnosed(eval_out)

\* ------------------------------------------------------------------ C13
\* C13: the technical-indicator evaluator returns not-triggered with a
\* reason, and does not raise, when the asset class is not stock, when the
\* indicator is not RSI or SMA, and when a crossing operator is asked for and
\* fewer than two indicator points are available.
C13_TechnicalEdgeCases ==
    Called("_eval_technical_indicator") =>
       /\ eval_in.asset_type # "stock" => Diagnosed(eval_out)
       /\ eval_in.cond.indicator \notin {"rsi", "sma"} => Diagnosed(eval_out)
       /\ /\ eval_in.cond.operator \in CrossOperators
          /\ ~eval_in.feed.fails
          /\ Len(eval_in.feed.series) < 2
          => Diagnosed(eval_out)

\* ------------------------------------------------------------------ C14
\* C14: a simple alert triggers exactly when its operator is ">=" and the
\* price is at least the threshold, or its operator is "<=" and the price is
\* at most the threshold; it triggers at price = threshold for both
\* operators and never for another operator.
C14_ThresholdEvaluator ==
    Called("_check_alert") =>
       LET op == eval_in.condition_type
           price == eval_in.current_price
           threshold == eval_in.threshold_price
       IN /\ eval_out.outcome = "returned"
          /\ eval_out.triggered <=>
                \/ op = ">=" /\ ~(price < threshold)
                \/ op = "<=" /\ ~(price > threshold)
          /\ price = threshold /\ op \in {">=", "<="} => eval_out.triggered
          /\ op \notin {">=", "<="} => ~eval_out.triggered

\* A "<=" alert was evaluated at price = threshold and triggered.
C14_Witness ==
    /\ Called("_check_alert")
    /\ eval_in.current_price = eval_in.threshold_price
    /\ eval_in.condition_type = "<="
    /\ eval_out.triggered

\* ------------------------------------------------------------------ C15
\* C15: the scheduler's cooldown gate returns, for every stored form of
\* last_triggered, false when the alert never triggered and otherwise whether
\* now - last_triggered < cooldown (false at equality); it does not raise and
\* it agrees with Alert.is_in_cooldown on the same input.
C15_CooldownGate ==
    Called("_is_in_cooldown") =>
       LET stamp == eval_in.last_triggered
       IN /\ eval_out.outcome = "returned"
          /\ stamp = NoTime => ~eval_out.triggered
          /\ stamp # NoTime =>
                (eval_out.triggered <=>
                    eval_in.now - stamp[2] < CooldownTicks)
          /\ eval_out.triggered = AlertIsInCooldown(stamp, eval_in.now)

\* ------------------------------------------------------------------ C16
\* C16: with a direction and a numeric threshold given, the percentage-change
\* evaluator triggers exactly when direction is up and change_pct >=
\* threshold, or direction is down and change_pct <= -|threshold|, or
\* direction is any and |change_pct| >= |threshold|; never for another
\* direction.
C16_PercentageDirections ==
    /\ Called("_eval_percentage_change")
    /\ eval_out.outcome = "returned"
    /\ eval_in.cond.direction # "missing"
    /\ eval_in.cond.change_percentage \notin {Missing, Malformed}
    => LET direction == eval_in.cond.direction
           threshold == eval_in.cond.change_percentage[2]
           magnitude == IF threshold < 0 THEN 0 - threshold ELSE threshold
           change_pct == ChangePct(eval_in.asset_type,
                                   IF eval_in.cond.comparison_base = "missing"
                                   THEN "24h"
                                   ELSE eval_in.cond.comparison_base,
                                   eval_in.cond.base_price, eval_in.feed)
       IN /\ direction = "up" =>
                (eval_out.triggered <=> change_pct >= threshold)
          /\ direction = "down" =>
                (eval_out.triggered <=> change_pct + magnitude <= 0)
          /\ direction = "any" =>
                (eval_out.triggered <=>
                    \/ change_pct >= magnitude
                    \/ change_pct + magnitude <= 0)
          /\ direction \notin {"up", "down", "any"} => ~eval_out.triggered

\* A "down" alert with threshold 5 triggered on a baseline change of exactly
\* -5 percent.
C16_Witness ==
    /\ Called("_eval_percentage_change")
    /\ eval_in.cond.direction = "down"
    /\ eval_in.cond.change_percentage = Num(5)
    /\ eval_in.cond.comparison_base = "baseline"
    /\ eval_in.cond.base_price = Num(100)
    /\ eval_in.feed.price = 95
    /\ eval_out.outcome = "returned"
    /\ eval_out.triggered

\* ------------------------------------------------------------------ C17
\* C17: for two consecutive indicator points (prior, current) of a stock's
\* RSI or SMA, crosses_above triggers exactly when prior < threshold <=
\* current, crosses_below exactly when prior > threshold >= current, and a
\* pair on one side of the threshold never triggers.
C17_CrossingDetection ==
    /\ Called("_eval_technical_indicator")
    /\ eval_in.asset_type = "stock"
    /\ eval_in.cond.indicator \in {"rsi", "sma"}
    /\ eval_in.cond.operator \in CrossOperators
    /\ eval_in.cond.threshold # Malformed
    /\ eval_in.cond.period # Malformed
    /\ ~eval_in.feed.fails
    /\ Len(eval_in.feed.series) = 2
    => LET prior == eval_in.feed.series[1]
           current == eval_in.feed.series[2]
           threshold == IF eval_in.cond.threshold = Missing THEN 0
                        ELSE eval_in.cond.threshold[2]
       IN /\ eval_out.outcome = "returned"
          /\ eval_in.cond.operator = "crosses_above" =>
                (eval_out.triggered <=>
                    prior < threshold /\ threshold <= current)
          /\ eval_in.cond.operator = "crosses_below" =>
                (eval_out.triggered <=>
                    prior > threshold /\ threshold >= current)
          /\ \/ prior < threshold /\ current < threshold
             \/ prior > threshold /\ current > threshold
             => ~eval_out.triggered

\* The series 65, 75 crossed the threshold 70 upwards and triggered.
C17_Witness ==
    /\ Called("_eval_technical_indicator")
    /\ eval_in.cond.operator = "crosses_above"
    /\ eval_in.cond.threshold = Num(70)
    /\ eval_in.feed.series = <<65, 75>>
    /\ eval_out.outcome = "returned"
    /\ eval_out.triggered

\* ----------------------------------------------- vocabulary, lifecycle
\* The step is a call of the lifecycle operation op (it returns in this step,
\* or suspends in restart's sleep).
LifecycleCall(op) == last_call' # last_call /\ last_call'.op = op

\* The step changes nothing but the record of the last call.
NothingElseChanges ==
    UNCHANGED <<monitoring, monitoring_interval_minutes, scheduler, detached,
                sleepers, evaluation, dispatch, fetching>>

\* ------------------------------------------------------------------ C18
\* C18: start() on a running scheduler and stop() on a stopped scheduler
\* raise nothing and change no state, and after every step of any
\* interleaving of start, stop, restart and update_interval at most one timer
\* is active.
C18_IdempotentLifecycle ==
    [][/\ LifecycleCall("start") /\ scheduler.running =>
             last_call'.outcome = "noop" /\ NothingElseChanges
       /\ LifecycleCall("stop") /\ ~scheduler.running =>
             last_call'.outcome = "noop" /\ NothingElseChanges
       /\ ActiveTimers' <= 1]_vars

\* start() was called on a scheduler that another start() had brought up
\* while a restart() was asleep; one timer is active.
C18_Witness ==
    /\ last_call.op = "start"
    /\ last_call.outcome = "noop"
    /\ sleepers > 0
    /\ ActiveTimers = 1

\* ------------------------------------------------------------------ C19
\* C19: update_interval(m) with m outside 1..60 fails with a validation error
\* and changes nothing; with m in 1..60 it sets the configured interval to m,
\* a running scheduler is stopped and restarted, a stopped one stays stopped,
\* and a running timer always has the configured interval.
C19_UpdateInterval ==
    [][/\ \A m \in UpdateMinutes :
             LifecycleCall("update_interval") /\ last_call'.arg = m =>
                IF m < 1 \/ m > 60
                THEN /\ last_call'.outcome = "ValueError"
                     /\ NothingElseChanges
                ELSE /\ last_call'.outcome = "accepted"
                     /\ monitoring_interval_minutes' = m
                     /\ scheduler.running =>
                           /\ ~scheduler'.running
                           /\ sleepers' = sleepers + 1
                     /\ ~scheduler.running =>
                           UNCHANGED <<scheduler, is_running, sleepers>>
       /\ scheduler'.running =>
             scheduler'.interval = monitoring_interval_minutes']_vars

\* update_interval(60) on a running scheduler has restarted it: the timer
\* runs with interval 60.
C19_Witness ==
    /\ last_call.op = "restart"
    /\ last_call.outcome = "started"
    /\ monitoring_interval_minutes = 60
    /\ scheduler.running
    /\ scheduler.interval = 60
    /\ stats.total_cycles > 0

\* ------------------------------------------------------------------ C20
\* C20: a stop(), restart() or update_interval() issued while a cycle is in
\* flight does not abort it, and stop() returns only when no cycle is in
\* flight.
C20_CycleOutlivesStop ==
    [][/\ /\ InFlight("timer")
          /\ \/ LifecycleCall("stop")
             \/ LifecycleCall("restart")
             \/ LifecycleCall("update_interval")
          => pc'["timer"] = pc["timer"]
       /\ LifecycleCall("stop") => ~InFlight("timer")]_vars

\* ------------------------------------------------------------------ C21
\* The step belongs to the cycle of caller r: it starts the cycle, resumes
\* it at an await, or hands its result to the caller.
CycleStep(r) ==
    \/ pc'[r] # pc[r]
    \/ idx'[r] # idx[r]
    \/ cycle_stats'[r] # cycle_stats[r]

\* C21: trigger_manual_check starts exactly one cycle, that cycle can always
\* go on until it returns its own statistics, and no step of it touches the
\* timer: the running flag, the scheduler and the configured interval stay as
\* they are, so a stopped scheduler is not started.
C21_ManualCheckLeavesTimer ==
    [][/\ pc["manual"] = "idle" /\ pc'["manual"] # "idle" =>
             /\ stats'.total_cycles = stats.total_cycles + 1
             /\ cycle_stats'["manual"] = NewCycleStats
             /\ pc'["timer"] = pc["timer"]
       /\ InFlight("manual") =>
             /\ ENABLED Step("manual")
             /\ CycleStep("manual") =>
                   /\ stats'.total_cycles = stats.total_cycles
                   /\ pc'["manual"] # "idle"
             /\ ~CycleStep("manual") =>
                   cycle_stats'["manual"] = cycle_stats["manual"]
       /\ CycleStep("manual") => UNCHANGED <<is_running, lifecycle>>]_vars

\* A manual check has run to its end on a scheduler that was never started:
\* its statistics are ready and the timer is still stopped.
C21_Witness ==
    /\ pc["manual"] = "done"
    /\ cycle_stats["manual"].alerts_checked > 0
    /\ stats.total_cycles = 1
    /\ ~is_running
    /\ ~scheduler.running

\* ----------------------------------------------------- the price service
\* Nothing is scheduled, no cycle is in flight and the tables hold inactive
\* alerts only: the state in which a service operation is called alone.
AtRest ==
    /\ now = 0
    /\ is_running = FALSE
    /\ enable_whatsapp = TRUE
    /\ alerts = [a \in SimpleIds |->
                   [is_active |-> FALSE,
                    condition_type |-> IF a = 1 THEN ">=" ELSE "<=",
                    threshold_price |-> 2,
                    last_triggered |-> NoTime]]
    /\ advanced_alerts = [a \in AdvIds |->
                   [is_active |-> FALSE, direction |-> "up",
                    change_percentage |-> 5, last_triggered |-> NoTime,
                    last_checked |-> NoTime, trigger_count |-> 0,
                    max_triggers |-> 1, expiry_date |-> Aware(1)]]
    /\ alert_trigger_history = <<>>
    /\ stats = NewStats
    /\ pc = [r \in Runners |-> "idle"]
    /\ cycle_stats = [r \in Runners |-> NewCycleStats]
    /\ active_alerts = [r \in Runners |-> <<>>]
    /\ adv_rows = [r \in Runners |-> <<>>]
    /\ idx = [r \in Runners |-> 0]
    /\ triggered = [r \in Runners |-> FALSE]
    /\ delivery = [r \in Runners |-> "none"]
    /\ last_sent = [a \in SimpleIds \cup AdvIds |-> NoTime]
    /\ seen = [r \in Runners |-> <<>>]
    /\ failing = [r \in Runners |-> {}]
    /\ totals = [alerts_checked |-> 0, alerts_triggered |-> 0]
    /\ faults = 0
    /\ monitoring_interval_minutes = DefaultInterval
    /\ scheduler = NoScheduler
    /\ detached = 0
    /\ sleepers = 0
    /\ last_call = NoCall
    /\ DispatchIdle

\* A symbol as the detection heuristics see it: len(symbol) <= 5,
\* symbol.upper() == symbol, symbol.isalpha(), and membership of
\* symbol.lower() in known_crypto_symbols.
Symbols ==
    { [name |-> "AAPL", short |-> TRUE, upper |-> TRUE, alpha |-> TRUE,
       known |-> FALSE],
      [name |-> "aapl", short |-> TRUE, upper |-> FALSE, alpha |-> TRUE,
       known |-> FALSE],
      [name |-> "BRK.B", short |-> TRUE, upper |-> TRUE, alpha |-> FALSE,
       known |-> FALSE],
      [name |-> "BTC", short |-> TRUE, upper |-> TRUE, alpha |-> TRUE,
       known |-> TRUE],
      [name |-> "bitcoin", short |-> FALSE, upper |-> FALSE, alpha |-> TRUE,
       known |-> TRUE] }

\* Lines 150-155.
IsLikelyStock(symbol) ==
    symbol.short /\ symbol.upper /\ symbol.alpha /\ ~symbol.known

\* Lines 157-161.
IsLikelyCrypto(symbol) ==
    symbol.known \/ ~symbol.short \/ ~symbol.alpha

Providers == {"stock", "crypto"}

\* PriceData.source of a quote, APIError.source of a provider's error.
SourceName(provider) ==
    IF provider = "stock" THEN "alpha_vantage" ELSE "coingecko"

\* A PriceData returned by a provider.
Quote(provider, price) ==
    [ok |-> TRUE, price |-> price, source |-> SourceName(provider),
     type |-> "PriceData", text |-> <<>>]

\* An exception; text is str(e) as the sequence of its fragments.
Failure(type, source, text) ==
    [ok |-> FALSE, price |-> 0, source |-> source, type |-> type,
     text |-> text]

\* The messages a provider fails with: HTTP 429, an HTTP error whose body
\* says the symbol was not found, an empty quote, a network error.
ThrottleText == "rate limit exceeded"

ProviderTexts ==
    {"HTTP error 404: Not Found", "No price data found for symbol",
     "Network error"}

\* "not found" in fragment.lower()
FragmentHasNotFound(fragment) ==
    fragment \in {"HTTP error 404: Not Found",
                  "not found in any supported API"}

\* "not found" in str(e).lower()
HasNotFound(text) == \E k \in 1..Len(text) : FragmentHasNotFound(text[k])

\* What get_stock_price / get_crypto_price of a provider can answer.
ProviderAnswers(provider) ==
    {Quote(provider, price) : price \in {1, 2}}
    \cup {Failure("RateLimitError", SourceName(provider), <<ThrottleText>>)}
    \cup {Failure("APIError", SourceName(provider), <<t>>) :
             t \in ProviderTexts}

\* _get_stock_price / _get_crypto_price, lines 81-137: the quote is passed
\* on; any exception is replaced by a new APIError whose message embeds
\* str(e).
GetProviderPrice(provider, answers) ==
    IF answers[provider].ok THEN answers[provider]
    ELSE Failure("APIError",
                 IF provider = "stock" THEN "stock_api" ELSE "crypto_api",
                 <<"Failed to fetch price">> \o answers[provider].text)

\* What get_price did: the providers queried, in order, and the PriceData
\* returned or the exception raised.
Fetched(calls, result) == [calls |-> calls, result |-> result]

\* Variant: when both attempts fail the error of the second one is raised.
AutoDetectAndFetchLastError(symbol, answers) ==
    LET first == IF IsLikelyStock(symbol) /\ ~IsLikelyCrypto(symbol)
                 THEN "stock" ELSE "crypto"
        second == IF first = "stock" THEN "crypto" ELSE "stock"
        first_result == GetProviderPrice(first, answers)
        second_result == GetProviderPrice(second, answers)
    IN IF first_result.ok THEN Fetched(<<first>>, first_result)
       ELSE IF second_result.ok
       THEN Fetched(<<first, second>>, second_result)
       ELSE IF HasNotFound(first_result.text)
               /\ HasNotFound(second_result.text)
       THEN Fetched(<<first, second>>,
                    Failure("APIError", "auto_detect",
                            <<"not found in any supported API">>))
       ELSE Fetched(<<first, second>>, second_result)

\* _auto_detect_and_fetch, lines 139-222.
AutoDetectAndFetch(symbol, answers) ==
    LET first == IF IsLikelyStock(symbol) /\ ~IsLikelyCrypto(symbol)
                 THEN "stock" ELSE "crypto"
        second == IF first = "stock" THEN "crypto" ELSE "stock"
        first_result == GetProviderPrice(first, answers)
        second_result == GetProviderPrice(second, answers)
    IN IF first_result.ok THEN Fetched(<<first>>, first_result)
       ELSE IF second_result.ok
       THEN Fetched(<<first, second>>, second_result)
       ELSE IF HasNotFound(first_result.text)
               /\ HasNotFound(second_result.text)
       THEN Fetched(<<first, second>>,
                    Failure("APIError", "auto_detect",
                            <<"not found in any supported API">>))
       ELSE Fetched(<<first, second>>, first_result)

\* get_price, lines 28-79.
GetPriceResult(symbol, asset_type, answers) ==
    IF asset_type = "stock"
    THEN Fetched(<<"stock">>, GetProviderPrice("stock", answers))
    ELSE IF asset_type = "crypto"
    THEN Fetched(<<"crypto">>, GetProviderPrice("crypto", answers))
    ELSE AutoDetectAndFetch(symbol, answers)

PriceInputs ==
    [fn : {"get_price"}, symbol : Symbols,
     asset_type : {"stock", "crypto", "auto"},
     answers : {f \in [Providers -> UNION {ProviderAnswers(p) :
                                              p \in Providers}] :
                   \A p \in Providers : f[p] \in ProviderAnswers(p)}]

PriceInit ==
    /\ AtRest
    /\ eval_in \in PriceInputs
    /\ eval_out = NoEval

GetStockPrice ==
    /\ eval_in.asset_type = "stock"
    /\ Applies(GetPriceResult(eval_in.symbol, "stock", eval_in.answers))

GetCryptoPrice ==
    /\ eval_in.asset_type = "crypto"
    /\ Applies(GetPriceResult(eval_in.symbol, "crypto", eval_in.answers))

GetAutoPrice ==
    /\ eval_in.asset_type = "auto"
    /\ Applies(GetPriceResult(eval_in.symbol, "auto", eval_in.answers))

PriceNext == GetStockPrice \/ GetCryptoPrice \/ GetAutoPrice

PriceSpec == PriceInit /\ [][PriceNext]_vars

\* ------------------------------------------------------------------ C22
\* The provider the heuristics prefer for the symbol of the call, and the
\* other one.
Preferred == IF eval_in.symbol.name = "AAPL" THEN "stock" ELSE "crypto"

Fallback == IF Preferred = "stock" THEN "crypto" ELSE "stock"

\* C22: in auto mode get_price queries the preferred provider first and the
\* other one only if the first fails, and returns the first success; if both
\* fail and both messages contain "not found" it raises one combined
\* symbol-not-found error, otherwise it raises the error of the first
\* attempt.
C22_AutoFallback ==
    Called("get_price") /\ eval_in.asset_type = "auto" =>
       LET a1 == eval_in.answers[Preferred]
           a2 == eval_in.answers[Fallback]
           out == eval_out.result
       IN /\ a1.ok => eval_out.calls = <<Preferred>> /\ out = a1
          /\ ~a1.ok => eval_out.calls = <<Preferred, Fallback>>
          /\ ~a1.ok /\ a2.ok => out = a2
          /\ ~a1.ok /\ ~a2.ok =>
                /\ ~out.ok
                /\ IF HasNotFound(a1.text) /\ HasNotFound(a2.text)
                   THEN /\ out.source = "auto_detect"
                        /\ out.type = "APIError"
                        /\ HasNotFound(out.text)
                   ELSE /\ out.source = Preferred \o "_api"
                        /\ out.text[Len(out.text)] = a1.text[1]

\* Both providers failed, one with a throttling notice: the error of the
\* first attempt (the stock provider, preferred for "AAPL") was raised.
C22_Witness ==
    /\ Called("get_price")
    /\ eval_in.asset_type = "auto"
    /\ eval_out.calls = <<"stock", "crypto">>
    /\ ~eval_out.result.ok
    /\ eval_out.result.source = "stock_api"
    /\ HasNotFound(eval_in.answers["crypto"].text)

\* ------------------------------------------------------------------ C23
\* C23: when get_price fails because the provider it asked reports
\* throttling, the error it raises is of the RateLimitError subtype.
C23_ThrottlingDistinguishable ==
    Called("get_price") =>
       LET throttled ==
              \A k \in 1..Len(eval_out.calls) :
                 eval_in.answers[eval_out.calls[k]].type = "RateLimitError"
       IN ~eval_out.result.ok /\ throttled =>
             eval_out.result.type = "RateLimitError"

\* ------------------------------------------------ the notification service
MaxSends == 2         \* send_price_alert calls in one behaviour

MaxRetries == 1       \* _send_message_with_retry(max_retries=1)

\* What client.messages.create raises: a TwilioException with a status, one
\* without the attribute (status 0), or another exception.
ChannelErrors ==
    [class : {"TwilioException"}, status : {0, 400, 401, 403, 500}]
    \cup [class : {"Exception"}, status : {0}]

\* The message result of a delivered message.
Delivered == [class |-> "MessageInstance", status |-> 0]

\* Line 246: hasattr(e, 'status') and e.status in [400, 401, 403]
NonRetryable(e) ==
    e.class = "TwilioException" /\ e.status \in {400, 401, 403}

\* WhatsAppError(message, original_error=e)
WhatsAppError(e) == [class |-> "WhatsAppError", original |-> e]

\* Lines 104-111 and 136-138: a call of send_price_alert; it fails at once
\* when the service is not configured, otherwise the retry loop starts.
SendPriceAlert ==
    /\ send.pc \in {"idle", "returned", "raised"}
    /\ send.calls < MaxSends
    /\ \E configured \in BOOLEAN :
         send' = IF configured
                 THEN [NoSend EXCEPT !.pc = "attempt",
                                     !.calls = send.calls + 1]
                 ELSE [NoSend EXCEPT !.pc = "raised",
                                     !.raised = WhatsAppError(NoError),
                                     !.calls = send.calls + 1]
    /\ UNCHANGED <<notification_attempts, channel_attempts>>
    /\ UNCHANGED <<monitoring, lifecycle, evaluation, fetching>>

\* Lines 230-239: the channel accepts the message.
AttemptSucceeds ==
    /\ send.pc = "attempt"
    /\ send' = [send EXCEPT !.pc = "store", !.sent = TRUE,
                            !.tries = Append(@, Delivered)]
    /\ channel_attempts' = channel_attempts + 1
    /\ UNCHANGED notification_attempts
    /\ UNCHANGED <<monitoring, lifecycle, evaluation, fetching>>

\* Variant: every failure is retried while attempts are left.
AttemptFailsRetryingAll ==
    /\ send.pc = "attempt"
    /\ \E e \in ChannelErrors :
         send' = IF send.attempt < MaxRetries
                 THEN [send EXCEPT !.attempt = @ + 1, !.last_error = e,
                                   !.tries = Append(@, e)]
                 ELSE [send EXCEPT !.pc = "store", !.last_error = e,
                                   !.tries = Append(@, e),
                                   !.retry_error = WhatsAppError(e)]
    /\ channel_attempts' = channel_attempts + 1
    /\ UNCHANGED notification_attempts
    /\ UNCHANGED <<monitoring, lifecycle, evaluation, fetching>>

\* Lines 241-267 and 172-173: the channel raises.  A client error ends the
\* loop; any other error is retried while attempts are left; when the loop
\* is over WhatsAppError is raised and caught by send_price_alert.
AttemptFails ==
    /\ send.pc = "attempt"
    /\ \E e \in ChannelErrors :
         send' = IF ~NonRetryable(e) /\ send.attempt < MaxRetries
                 THEN [send EXCEPT !.attempt = @ + 1, !.last_error = e,
                                   !.tries = Append(@, e)]
                 ELSE [send EXCEPT !.pc = "store", !.last_error = e,
                                   !.tries = Append(@, e),
                                   !.retry_error = WhatsAppError(e)]
    /\ channel_attempts' = channel_attempts + 1
    /\ UNCHANGED notification_attempts
    /\ UNCHANGED <<monitoring, lifecycle, evaluation, fetching>>

\* The row written by _store_notification_attempt, lines 322-342: one row
\* for the call, with the notification's final status and str(error).
AttemptRecord ==
    [status |-> IF send.sent THEN "sent" ELSE "failed",
     error_message |-> send.retry_error,
     attempt_number |-> 1]

\* Variant: a failing INSERT propagates out of _store_notification_attempt.
StoreNotificationAttemptRaising ==
    /\ send.pc = "store"
    /\ \/ /\ notification_attempts' = Append(notification_attempts, AttemptRecord)
          /\ send' = IF send.sent THEN [send EXCEPT !.pc = "returned"]
                     ELSE [send EXCEPT !.pc = "raised",
                                       !.raised = WhatsAppError(send.retry_error)]
       \/ /\ UNCHANGED notification_attempts
          /\ send' = [send EXCEPT !.pc = "raised",
                                  !.raised = [class |-> "OperationalError",
                                              status |-> 0]]
    /\ UNCHANGED channel_attempts
    /\ UNCHANGED <<monitoring, lifecycle, evaluation, fetching>>

\* Lines 140-170 and 172-200: the attempt is stored (a failing INSERT is
\* logged and ignored); then the notification is returned, or WhatsAppError
\* is raised around the error of the retry loop.
StoreNotificationAttempt ==
    /\ send.pc = "store"
    /\ \/ notification_attempts' = Append(notification_attempts, AttemptRecord)
       \/ UNCHANGED notification_attempts
    /\ send' = IF send.sent THEN [send EXCEPT !.pc = "returned"]
               ELSE [send EXCEPT !.pc = "raised",
                                 !.raised = WhatsAppError(send.retry_error)]
    /\ UNCHANGED channel_attempts
    /\ UNCHANGED <<monitoring, lifecycle, evaluation, fetching>>

SendInit ==
    /\ AtRest
    /\ eval_in = NoEval
    /\ eval_out = NoEval

SendNext ==
    \/ SendPriceAlert
    \/ AttemptSucceeds
    \/ AttemptFails
    \/ StoreNotificationAttempt

SendSpec == SendInit /\ [][SendNext]_vars

\* ------------------------------------------------------------------ C24
\* The retry loop of the current call is over.
LoopOver == send.pc \in {"store", "returned", "raised"} /\ send.tries # <<>>

\* A client error with status 400, 401 or 403.
ClientError(e) ==
    e.class = "TwilioException" /\ e.status \in {400, 401, 403}

\* C24: one notification makes at most two attempts on the channel; every
\* attempt before the last one failed with an error that is not a 400, 401
\* or 403 client error, a failed first attempt of another kind is retried,
\* a success ends the sending, and when no attempt succeeds a WhatsAppError
\* carrying the last underlying error is raised.
C24_RetryOnce ==
    /\ Len(send.tries) <= 2
    /\ LoopOver =>
          LET n == Len(send.tries)
              last == send.tries[n]
          IN /\ \A k \in 1..(n - 1) :
                   send.tries[k] # Delivered /\ ~ClientError(send.tries[k])
             /\ n = 1 => last = Delivered \/ ClientError(last)
             /\ last = Delivered =>
                   send.sent /\ send.retry_error = NoError
             /\ last # Delivered =>
                   /\ ~send.sent
                   /\ send.retry_error.class = "WhatsAppError"
                   /\ send.retry_error.original = last

\* A server error was retried and the retry hit a client error: two
\* attempts, WhatsAppError raised.
C24_Witness ==
    /\ send.pc = "raised"
    /\ Len(send.tries) = 2
    /\ send.tries[1].status = 500
    /\ send.tries[2].status = 401

\* ------------------------------------------------------------------ C25
\* C25: when no send_price_alert call is in progress the table holds one
\* delivery-attempt record for every attempt made on the channel, and no
\* step changes or removes a record already stored.
C25_EveryAttemptRecorded ==
    [][/\ send'.pc \in {"idle", "returned", "raised"} =>
             Len(notification_attempts') = channel_attempts'
       /\ Len(notification_attempts') >= Len(notification_attempts)
       /\ \A k \in 1..Len(notification_attempts) :
             notification_attempts'[k] = notification_attempts[k]]_vars

\* ------------------------------------------- creating an advanced alert
\* What get_price answers at creation time.
CreationQuotes ==
    [fails : {FALSE}, price : {95, 100, 105}] \cup [fails : {TRUE}, price : {100}]

\* AdvancedAlertCreate: the request of create_alert.
CreateRequests ==
    [alert_type : {"percentage_change", "technical_indicator"},
     asset_type : AssetTypes,
     conditions : [direction : {"up"}, change_percentage : {Num(5)},
                   comparison_base : {"baseline", "24h"},
                   base_price : {Missing, Num(100)}]]

\* Lines 35-39: the current price has to be captured as the baseline.
CapturesBaseline(data) ==
    /\ data.alert_type = "percentage_change"
    /\ data.conditions.comparison_base = "baseline"
    /\ data.conditions.base_price = Missing

\* Variant: the conditions are stored as they were sent.
StoredConditionsAsSent(data, quote) == data.conditions

\* Lines 33-42 and 58: the conditions written to the row as JSON.
StoredConditions(data, quote) ==
    IF CapturesBaseline(data)
    THEN [data.conditions EXCEPT !.base_price = Num(quote.price)]
    ELSE data.conditions

\* create_alert, lines 30-81: get_price may raise; otherwise the row is
\* inserted as an active alert.
CreatedRow(data, quote) ==
    IF CapturesBaseline(data) /\ quote.fails
    THEN [outcome |-> "raised", exception |-> "APIError"]
    ELSE [outcome |-> "created",
          alert_type |-> data.alert_type,
          asset_type |-> data.asset_type,
          conditions_form |-> "json",
          conditions |-> StoredConditions(data, quote),
          is_active |-> TRUE,
          trigger_count |-> 0]

\* What an evaluation of the stored row adds: the result of
\* evaluate_and_maybe_trigger and the change_pct of its context.
EvaluatedRow(row, feed) ==
    [outcome |-> "evaluated",
     alert_type |-> row.alert_type,
     asset_type |-> row.asset_type,
     conditions_form |-> row.conditions_form,
     conditions |-> row.conditions,
     is_active |-> row.is_active,
     trigger_count |-> row.trigger_count,
     result |-> EvaluateAndMaybeTrigger(row, feed),
     change_pct |-> ChangePct(row.asset_type, row.conditions.comparison_base,
                              row.conditions.base_price, feed)]

CreateInputs ==
    [fn : {"create_alert"}, data : CreateRequests, quote : CreationQuotes,
     feed : {f \in Feeds : f.change_24h \in {0, 5}}]

CreateInit ==
    /\ AtRest
    /\ eval_in \in CreateInputs
    /\ eval_out = NoEval

CreateAlert ==
    /\ eval_in.fn = "create_alert"
    /\ Applies(CreatedRow(eval_in.data, eval_in.quote))

\* A monitoring cycle evaluates the stored row (percentage alerts only).
EvaluateCreated ==
    /\ eval_out # NoEval
    /\ eval_out.outcome = "created"
    /\ eval_out.alert_type = "percentage_change"
    /\ ~eval_in.feed.fails
    /\ eval_out' = EvaluatedRow(eval_out, eval_in.feed)
    /\ UNCHANGED <<monitoring, lifecycle, dispatch, fetching, eval_in>>

CreateNext == CreateAlert \/ EvaluateCreated

CreateSpec == CreateInit /\ [][CreateNext]_vars

\* ------------------------------------------------------------------ C26
\* C26: a percentage alert created with comparison_base "baseline" and no
\* base_price is stored with base_price equal to the price fetched at
\* creation time, and an evaluation at that same price computes
\* change_pct = 0.
C26_BaselineRoundTrip ==
    /\ Called("create_alert")
    /\ eval_in.data.alert_type = "percentage_change"
    /\ eval_in.data.conditions.comparison_base = "baseline"
    /\ eval_in.data.conditions.base_price = Missing
    /\ eval_out.outcome \in {"created", "evaluated"}
    => /\ eval_out.conditions.base_price = Num(eval_in.quote.price)
       /\ eval_out.outcome = "evaluated"
             /\ eval_in.feed.price = eval_in.quote.price
          => eval_out.change_pct = 0

\* The alert was created at price 105 and evaluated at price 105.
C26_Witness ==
    /\ Called("create_alert")
    /\ eval_in.data.conditions.comparison_base = "baseline"
    /\ eval_in.data.conditions.base_price = Missing
    /\ eval_in.quote.price = 105
    /\ eval_out.outcome = "evaluated"
    /\ eval_in.feed.price = 105
    /\ eval_out.change_pct = 0

\* ----------------------------------------------------- toggling an alert
MissingId == 999      \* an id no row has

\* The tables before the operation in progress, and the operation that
\* came before it.
Snapshot ==
    [fn |-> "snapshot", alerts |-> alerts,
     advanced_alerts |-> advanced_alerts, prev |-> last_call]

\* The parts of the state no operation on the tables touches.
untouched == <<now, is_running, enable_whatsapp, alert_trigger_history,
               stats, job_vars, last_sent, totals, faults,
               monitoring_interval_minutes, scheduler, detached, sleepers,
               dispatch, fetching, eval_out>>

\* AlertService.toggle_alert_status, lines 355-380: the row is read, and
\* update_alert writes is_active = not alert.is_active and nothing else.
ToggleAlertStatus(alert_id) ==
    /\ eval_in' = Snapshot
    /\ IF alert_id \in SimpleIds
       THEN /\ alerts' = [alerts EXCEPT ![alert_id].is_active = ~@]
            /\ last_call' = Call("toggle_alert_status", "toggled", alert_id)
       ELSE /\ UNCHANGED alerts
            /\ last_call' = Call("toggle_alert_status", "not_found", alert_id)
    /\ UNCHANGED <<advanced_alerts, untouched>>

\* Variant: the toggle switches the alert off whatever its state.
ToggleAlertDeactivating(alert_id) ==
    /\ eval_in' = Snapshot
    /\ IF alert_id \in AdvIds
       THEN /\ advanced_alerts' =
                  [advanced_alerts EXCEPT ![alert_id].is_active = FALSE]
            /\ last_call' = Call("toggle_alert", "toggled", alert_id)
       ELSE /\ UNCHANGED advanced_alerts
            /\ last_call' = Call("toggle_alert", "not_found", alert_id)
    /\ UNCHANGED <<alerts, untouched>>

\* AdvancedAlertService.toggle_alert, lines 153-162.
ToggleAlert(alert_id) ==
    /\ eval_in' = Snapshot
    /\ IF alert_id \in AdvIds
       THEN /\ advanced_alerts' =
                  [advanced_alerts EXCEPT ![alert_id].is_active = ~@]
            /\ last_call' = Call("toggle_alert", "toggled", alert_id)
       ELSE /\ UNCHANGED advanced_alerts
            /\ last_call' = Call("toggle_alert", "not_found", alert_id)
    /\ UNCHANGED <<alerts, untouched>>

\* AlertService.update_alert, lines 292-353, called with a new
\* threshold_price: another operation that can come between two toggles.
UpdateAlert(alert_id, threshold_price) ==
    /\ eval_in' = Snapshot
    /\ alerts' = [alerts EXCEPT ![alert_id].threshold_price = threshold_price]
    /\ last_call' = Call("update_alert", "updated", alert_id)
    /\ UNCHANGED <<advanced_alerts, untouched>>

ToggleInit ==
    /\ AtRest
    /\ eval_in = NoEval
    /\ eval_out = NoEval

ToggleNext ==
    \/ \E alert_id \in SimpleIds \cup {MissingId} :
          ToggleAlertStatus(alert_id)
    \/ \E alert_id \in AdvIds \cup {MissingId} : ToggleAlert(alert_id)
    \/ \E alert_id \in SimpleIds, p \in Prices : UpdateAlert(alert_id, p)

ToggleSpec == ToggleInit /\ [][ToggleNext]_vars

\* ------------------------------------------------------------------ C27
\* The step is a toggle of alert a through operation op.
Toggles(op, a) == LifecycleCall(op) /\ last_call'.arg = a

\* C27: a toggle of an existing alert inverts is_active and changes no other
\* field and no other row; a second toggle of the same alert right after the
\* first leaves both tables as they were before the first; a toggle of an id
\* that no row has changes nothing.
C27_ToggleTwiceRestores ==
    [][/\ \A a \in SimpleIds :
             Toggles("toggle_alert_status", a) =>
                /\ alerts' = [alerts EXCEPT ![a].is_active = ~alerts[a].is_active]
                /\ UNCHANGED advanced_alerts
                /\ last_call.op = "toggle_alert_status" /\ last_call.arg = a
                      => alerts' = eval_in.alerts
       /\ \A a \in AdvIds :
             Toggles("toggle_alert", a) =>
                /\ advanced_alerts' =
                      [advanced_alerts EXCEPT
                          ![a].is_active = ~advanced_alerts[a].is_active]
                /\ UNCHANGED alerts
                /\ last_call.op = "toggle_alert" /\ last_call.arg = a
                      => advanced_alerts' = eval_in.advanced_alerts
       /\ Toggles("toggle_alert_status", MissingId)
             \/ Toggles("toggle_alert", MissingId)
          => UNCHANGED <<alerts, advanced_alerts>>]_vars

\* The advanced alert was toggled twice in a row after the threshold of a
\* simple alert had been changed, and it is inactive as it was at first.
C27_Witness ==
    /\ last_call.op = "toggle_alert"
    /\ last_call.arg \in AdvIds
    /\ eval_in.prev.op = "toggle_alert"
    /\ eval_in.prev.arg = last_call.arg
    /\ ~advanced_alerts[last_call.arg].is_active
    /\ alerts[1].threshold_price = 3

\* ------------------------------------------------------------------ C28
\* C28: when a cycle whose load phase did not fail returns, every advanced
\* alert it loaded has last_checked equal to the time of the cycle, whatever
\* the outcome of its evaluation.
C28_LastCheckedStamped ==
    [][\A r \in Runners :
          Returns(r) /\ ~FailsAt(r, {"load_simple", "load_adv"}) =>
             \A k \in 1..Len(adv_rows'[r]) :
                advanced_alerts'[adv_rows'[r][k].id].last_checked = <<now>>]_vars

\* ------------------------------------------------------------------ C29
\* C29: the trigger-history row appended for a triggered advanced alert is
\* marked sent exactly when the notification was delivered, and failed
\* otherwise.
C29_HistoryRecordsOutcome ==
    [][\A r \in Runners :
          /\ pc[r] = "adv_persist"
          /\ CycleStep(r)
          /\ Len(alert_trigger_history') > Len(alert_trigger_history)
          => LET row == alert_trigger_history'[Len(alert_trigger_history')]
             IN row.notification_status =
                   IF delivery[r] = "sent" THEN "sent" ELSE "failed"]_vars

\* ------------------------------------------------------------------ C30
\* The fields of a simple alert that say what it watches for.
SimpleDefinition(row) ==
    <<row.is_active, row.condition_type, row.threshold_price>>

\* The fields of an advanced alert that say what it watches for, with its
\* soft lifecycle limits.
AdvancedDefinition(row) ==
    <<row.is_active, row.direction, row.change_percentage, row.max_triggers,
      row.expiry_date>>

MaxEvaluations == 2   \* evaluations of one stored set of conditions

\* The conditions column of a percentage alert compared with a baseline;
\* base_price may be absent (a row written by update_alert, which stores
\* the conditions as sent).
BaselineConditions ==
    [direction : {"up"}, change_percentage : {Num(5)},
     comparison_base : {"baseline"}, base_price : {Missing, Num(100)}]

\* Lines 224-228: the context _eval_percentage_change returns for the
\* baseline branch.
BaselineContext(asset_type, cond, feed) ==
    [current_price |-> feed.price,
     base_price |-> ParseNumber(cond.base_price, feed.price),
     change_pct |-> ChangePct(asset_type, cond.comparison_base,
                              cond.base_price, feed)]

\* The stored row together with the contexts of the evaluations made since
\* its conditions were last written.
StoredRow(asset_type, cond) ==
    [outcome |-> "stored", asset_type |-> asset_type, conditions |-> cond,
     evaluations |-> <<>>]

BaselineInit ==
    /\ AtRest
    /\ eval_in \in [fn : {"baseline"}, asset_type : AssetTypes]
    /\ eval_out \in {StoredRow(eval_in.asset_type, c) : c \in BaselineConditions}

\* update_alert, lines 104-144, with data.conditions set: the column is
\* overwritten with json.dumps(data.conditions); no price is fetched.
UpdateConditions ==
    /\ eval_in.fn = "baseline"
    /\ \E c \in BaselineConditions :
          eval_out' = StoredRow(eval_out.asset_type, c)
    /\ UNCHANGED <<monitoring, lifecycle, dispatch, fetching, eval_in>>

\* A monitoring cycle evaluates the row: evaluate_and_maybe_trigger reads
\* the conditions and fetches the price; nothing is written to the row.
EvaluateStored ==
    /\ eval_in.fn = "baseline"
    /\ Len(eval_out.evaluations) < MaxEvaluations
    /\ \E feed \in {f \in Feeds : ~f.fails /\ f.change_24h = 0} :
          eval_out' =
             [eval_out EXCEPT !.evaluations =
                 Append(@, BaselineContext(eval_out.asset_type,
                                           eval_out.conditions, feed))]
    /\ UNCHANGED <<monitoring, lifecycle, dispatch, fetching, eval_in>>

BaselineNext == UpdateConditions \/ EvaluateStored

BaselineSpec == BaselineInit /\ [][BaselineNext]_vars

\* ------------------------------------------------------------------ C31
\* C31: an evaluation of a baseline percentage alert stored without
\* base_price writes the fetched price into the stored conditions as
\* base_price, and all evaluations of the same stored conditions compute
\* change_pct against one baseline.
C31_LazyBaselinePersisted ==
    [][/\ eval_in.fn = "baseline"
       /\ Len(eval_out'.evaluations) > Len(eval_out.evaluations)
       => LET evals == eval_out'.evaluations
          IN /\ eval_out.conditions.base_price = Missing =>
                   eval_out'.conditions.base_price =
                      Num(evals[Len(evals)].current_price)
             /\ \A k \in 1..Len(evals) :
                   evals[k].base_price = evals[1].base_price]_vars

\* ------------------------------------------------------- the price cache
TtlSeconds == 2       \* PriceCache.ttl_seconds
MaxClock == 4         \* the clock stops here

\* The (symbol, source) pairs the providers read and write the cache with.
CacheRequests ==
    {<<"AAPL", "alpha_vantage">>, <<"aapl", "alpha_vantage">>,
     <<"aapl", "coingecko">>}

CachedPrices == {100, 105}

\* str.lower() on the symbols above.
Lower(symbol) == IF symbol = "AAPL" THEN "aapl" ELSE symbol

\* _generate_key, lines 20-22.
GenerateKey(symbol, source) == <<source, Lower(symbol)>>

\* Line 36: the entry is older than the TTL.
Expired(entry, t) == t - entry.timestamp > TtlSeconds

\* del self._cache[key]
Without(c, keys) == [k \in DOMAIN c \ keys |-> c[k]]

\* Variant: an expired entry is reported as a miss but kept.
CacheGetKeeping(symbol, source) ==
    LET key == GenerateKey(symbol, source)
        hit == key \in DOMAIN cache /\ ~Expired(cache[key], clock)
    IN /\ last_get' = [key |-> key, at |-> clock,
                       result |-> IF hit THEN cache[key].data ELSE 0]
       /\ UNCHANGED <<cache, clock, stored>>
       /\ UNCHANGED <<monitoring, lifecycle, evaluation, dispatch, pacing, serving,
                   limiting>>

\* PriceCache.get, lines 24-42; result 0 stands for None.
CacheGet(symbol, source) ==
    LET key == GenerateKey(symbol, source)
    IN /\ IF key \notin DOMAIN cache
          THEN /\ last_get' = [key |-> key, at |-> clock, result |-> 0]
               /\ UNCHANGED cache
          ELSE IF Expired(cache[key], clock)
          THEN /\ cache' = Without(cache, {key})
               /\ last_get' = [key |-> key, at |-> clock, result |-> 0]
          ELSE /\ last_get' = [key |-> key, at |-> clock,
                               result |-> cache[key].data]
               /\ UNCHANGED cache
       /\ UNCHANGED <<clock, stored>>
       /\ UNCHANGED <<monitoring, lifecycle, evaluation, dispatch, pacing, serving,
                   limiting>>

\* PriceCache.set, lines 44-54.
CacheSet(symbol, source, price_data) ==
    LET key == GenerateKey(symbol, source)
        entry == [data |-> price_data, timestamp |-> clock]
    IN /\ cache' = (key :> entry) @@ cache
       /\ stored' = (key :> entry) @@ stored
       /\ UNCHANGED <<clock, last_get>>
       /\ UNCHANGED <<monitoring, lifecycle, evaluation, dispatch, pacing, serving,
                   limiting>>

\* PriceCache.cleanup_expired, lines 62-75.
CleanupExpired ==
    /\ cache' = Without(cache, {k \in DOMAIN cache : Expired(cache[k], clock)})
    /\ UNCHANGED <<clock, last_get, stored>>
    /\ UNCHANGED <<monitoring, lifecycle, evaluation, dispatch, pacing, serving,
                   limiting>>

\* time.time() advances between two calls.
ClockTick ==
    /\ clock < MaxClock
    /\ clock' = clock + 1
    /\ UNCHANGED <<cache, last_get, stored>>
    /\ UNCHANGED <<monitoring, lifecycle, evaluation, dispatch, pacing, serving,
                   limiting>>

Get == \E q \in CacheRequests : CacheGet(q[1], q[2])

Set == \E q \in CacheRequests, d \in CachedPrices : CacheSet(q[1], q[2], d)

CacheInit == AtRest /\ eval_in = NoEval /\ eval_out = NoEval

CacheNext == Get \/ Set \/ CleanupExpired \/ ClockTick

CacheSpec == CacheInit /\ [][CacheNext]_vars

\* ------------------------------------------------------------------ C32
\* The entries of a cache under the keys other than key.
Others(c, key) == Without(c, {key})

\* C32: a get returns the data last set under its key when that set is at
\* most TtlSeconds old, and otherwise returns nothing and leaves no entry
\* under the key; and neither a get nor a set changes what is cached under
\* another key.
C32_CacheFreshOrNothing ==
    [][/\ last_get' # last_get =>
            LET key == last_get'.key
                fresh == /\ key \in DOMAIN stored
                         /\ clock - stored[key].timestamp <= TtlSeconds
            IN /\ fresh => last_get'.result = stored[key].data
               /\ ~fresh => last_get'.result = 0 /\ key \notin DOMAIN cache'
               /\ Others(cache', key) = Others(cache, key)
       /\ stored' # stored =>
            \E key \in DOMAIN stored' :
               /\ key \in DOMAIN stored => stored'[key] # stored[key]
               /\ key \in DOMAIN cache'
               /\ cache'[key] = stored'[key]
               /\ Others(cache', key) = Others(cache, key)]_vars

\* An entry was set, outlived the TTL, and the get that found it expired
\* removed it while another key kept its fresh entry.
C32_Witness ==
    /\ last_get # NoGet
    /\ last_get.result = 0
    /\ last_get.key \in DOMAIN stored
    /\ last_get.key \notin DOMAIN cache
    /\ last_get.at - stored[last_get.key].timestamp > TtlSeconds
    /\ \E k \in DOMAIN cache : clock - cache[k].timestamp <= TtlSeconds

\* ------------------------------------------- exponential_backoff_retry
\* Delays are counted in quarters of a second.
FetchMaxRetries == 2  \* max_retries=2 of the providers' calls
BaseDelay == 4        \* base_delay=1.0
MaxDelay == 240       \* max_delay: float = 60.0
BackoffFactor == 2    \* backoff_factor: float = 2.0

\* The arguments of a call: the providers' (max_retries=2, max_delay=60.0),
\* no retry at all, and a max_delay the second delay would exceed.
RetryConfigs ==
    [max_retries : {0, FetchMaxRetries}, max_delay : {6, MaxDelay}]

\* What fetch_price raises: APIError for a network error (httpx.RequestError),
\* APIError for an HTTP status such as 401, RateLimitError for 429, APIError
\* of _parse_response for the provider's "Error Message" (invalid symbol).
FetchFailures == {"network", "http_401", "rate_limit", "invalid_symbol"}

\* backoff_factor ** attempt
RECURSIVE Power(_, _)
Power(b, n) == IF n = 0 THEN 1 ELSE b * Power(b, n - 1)

Min(a, b) == IF a <= b THEN a ELSE b

\* Line 54: the delay before the next attempt.
BackoffDelay(attempt, max_delay) ==
    Min(BaseDelay * Power(BackoffFactor, attempt), max_delay)

\* Line 58: delay * (0.5 + random.random() * 0.5), for random() = 0, 0.5.
Jittered(delay) == {delay \div 2, (3 * delay) \div 4}

\* Lines 34-36: the call starts with attempt 0.
RetryStart ==
    /\ retry.pc = "idle"
    /\ \E c \in RetryConfigs :
          retry' = [NoRetry EXCEPT !.pc = "call",
                                   !.max_retries = c.max_retries,
                                   !.max_delay = c.max_delay]
    /\ UNCHANGED <<monitoring, lifecycle, evaluation, dispatch, caching, serving,
                   limiting>>

\* Lines 39-44: func() returns and its result is returned.
FetchSucceeds ==
    /\ retry.pc = "call"
    /\ retry' = [retry EXCEPT !.pc = "returned",
                              !.outcomes = Append(@, "ok")]
    /\ UNCHANGED <<monitoring, lifecycle, evaluation, dispatch, caching, serving,
                   limiting>>

\* Variant: the last failed attempt is followed by one more.
FetchFailsOnceMore ==
    /\ retry.pc = "call"
    /\ \E e \in FetchFailures, jitter \in BOOLEAN :
          LET delay == BackoffDelay(retry.attempt, retry.max_delay)
          IN \E slept \in (IF jitter THEN Jittered(delay) ELSE {delay}) :
                retry' =
                   IF retry.attempt = retry.max_retries + 1
                   THEN [retry EXCEPT !.pc = "raised",
                                      !.outcomes = Append(@, e),
                                      !.last_exception = e,
                                      !.raised = e]
                   ELSE [retry EXCEPT !.pc = "sleep",
                                      !.outcomes = Append(@, e),
                                      !.last_exception = e,
                                      !.delays = Append(@, slept)]
    /\ UNCHANGED <<monitoring, lifecycle, evaluation, dispatch, caching, serving,
                   limiting>>

\* Lines 46-63: func() raises; after the last attempt the exception is
\* raised, otherwise the call sleeps for the (jittered) delay.
FetchFails ==
    /\ retry.pc = "call"
    /\ \E e \in FetchFailures, jitter \in BOOLEAN :
          LET delay == BackoffDelay(retry.attempt, retry.max_delay)
          IN \E slept \in (IF jitter THEN Jittered(delay) ELSE {delay}) :
                retry' =
                   IF retry.attempt = retry.max_retries
                   THEN [retry EXCEPT !.pc = "raised",
                                      !.outcomes = Append(@, e),
                                      !.last_exception = e,
                                      !.raised = e]
                   ELSE [retry EXCEPT !.pc = "sleep",
                                      !.outcomes = Append(@, e),
                                      !.last_exception = e,
                                      !.delays = Append(@, slept)]
    /\ UNCHANGED <<monitoring, lifecycle, evaluation, dispatch, caching, serving,
                   limiting>>

\* Line 61 and line 36: asyncio.sleep(delay) returns, next attempt.
RetryWake ==
    /\ retry.pc = "sleep"
    /\ retry' = [retry EXCEPT !.pc = "call", !.attempt = @ + 1]
    /\ UNCHANGED <<monitoring, lifecycle, evaluation, dispatch, caching, serving,
                   limiting>>

RetryInit == AtRest /\ eval_in = NoEval /\ eval_out = NoEval

RetryNext == RetryStart \/ FetchSucceeds \/ FetchFails \/ RetryWake

\* The event loop resumes the coroutine whenever func() or the sleep is
\* over.
RetrySpec == RetryInit /\ [][RetryNext]_vars /\ WF_vars(RetryNext)

\* ------------------------------------------------------------------ C33
\* The call is over: it has returned or raised.
RetryOver == retry.pc \in {"returned", "raised"}

\* C33: a call makes at most max_retries + 1 invocations of the fetch and
\* always ends; it returns at the first successful invocation, raises the
\* exception of the last invocation when all of them failed, and never
\* sleeps longer than max_delay.
C33_RetryBounded ==
    /\ [](/\ Len(retry.outcomes) <= retry.max_retries + 1
          /\ \A k \in 1..Len(retry.delays) :
                retry.delays[k] <= retry.max_delay
          /\ \A k \in 1..(Len(retry.outcomes) - 1) : retry.outcomes[k] # "ok"
          /\ retry.pc = "returned" =>
                retry.outcomes[Len(retry.outcomes)] = "ok"
          /\ retry.pc = "raised" =>
                /\ Len(retry.outcomes) = retry.max_retries + 1
                /\ retry.raised = retry.outcomes[Len(retry.outcomes)]
                /\ retry.raised # "ok")
    /\ (retry.pc # "idle" ~> RetryOver)

\* All three invocations failed, the second delay was cut to max_delay, and
\* the last exception was raised.
C33_Witness ==
    /\ retry.pc = "raised"
    /\ Len(retry.outcomes) = 3
    /\ retry.max_delay = 6
    /\ retry.delays[2] = 6
    /\ retry.outcomes[1] # retry.outcomes[3]

\* ------------------------------------------------------------------ C34
\* The failures the providers' contract calls transient.
Transient(e) == e = "network"

\* C34: a fetch whose failure is not transient is not retried: the provider
\* is invoked once.
C34_RetryOnlyTransient ==
    \A k \in 1..Len(retry.outcomes) :
        retry.outcomes[k] # "ok" /\ ~Transient(retry.outcomes[k]) =>
            k = Len(retry.outcomes) /\ k = 1 /\ retry.pc = "raised"

\* ------------------------------------------------------ PriceServiceV2
\* Providers registered later through add_provider: one that outranks the
\* built-in ones and one that ties with CoinGecko.
ExtensionProviders ==
    {[name |-> "Mirror", priority |-> 0, handles |-> RequestKinds],
     [name |-> "Backup", priority |-> 2, handles |-> RequestKinds]}

\* Lines 118-134: the providers whose can_handle is true, in list order.
FindSuitableProviders(list, kind) ==
    SelectSeq(list, LAMBDA p : kind \in p.handles)

\* Lines 36-68: the call starts; without a suitable provider it raises.
GetPriceV2 ==
    /\ call.pc \in {"idle", "returned", "raised"}
    /\ \E kind \in RequestKinds :
          LET suitable == FindSuitableProviders(providers, kind)
          IN call' = [NoCallV2 EXCEPT
                         !.pc = IF suitable = <<>> THEN "raised" ELSE "query",
                         !.kind = kind,
                         !.snapshot = providers,
                         !.suitable = suitable,
                         !.result = IF suitable = <<>>
                                    THEN "no_providers" ELSE "none"]
    /\ UNCHANGED <<monitoring, lifecycle, evaluation, dispatch, caching,
                   pacing, limiting, providers>>

\* Lines 72-116: the next suitable provider answers: its price is returned,
\* or it fails and the loop moves on, raising after the last one.
QueryProvider ==
    /\ call.pc = "query"
    /\ LET provider == call.suitable[Len(call.log) + 1]
           last == Len(call.log) + 1 = Len(call.suitable)
       IN \E ok \in BOOLEAN :
             call' = [call EXCEPT
                         !.log = Append(@, [name |-> provider.name,
                                            priority |-> provider.priority,
                                            ok |-> ok]),
                         !.pc = IF ok THEN "returned"
                                ELSE IF last THEN "raised" ELSE "query",
                         !.result = IF ok THEN provider.name
                                    ELSE IF last THEN "all_failed"
                                    ELSE "none"]
    /\ UNCHANGED <<monitoring, lifecycle, evaluation, dispatch, caching,
                   pacing, limiting, providers>>

\* Variant: the provider is appended and the list is left as it is.
AddProviderUnsorted ==
    /\ \E p \in ExtensionProviders \cup {AlphaVantageProvider, CoinGeckoProvider} :
          /\ \A k \in 1..Len(providers) : providers[k].name # p.name
          /\ providers' = Append(providers, p)
    /\ UNCHANGED <<monitoring, lifecycle, evaluation, dispatch, caching,
                   pacing, limiting, call>>

\* add_provider, lines 140-144 (a provider is registered once).
AddProvider ==
    /\ \E p \in ExtensionProviders \cup {AlphaVantageProvider, CoinGeckoProvider} :
          /\ \A k \in 1..Len(providers) : providers[k].name # p.name
          /\ providers' = SortProviders(Append(providers, p))
    /\ UNCHANGED <<monitoring, lifecycle, evaluation, dispatch, caching,
                   pacing, limiting, call>>

\* remove_provider, lines 146-157.
RemoveProvider ==
    /\ \E provider_name \in {"Alpha Vantage", "CoinGecko", "Mirror", "Backup"} :
          providers' = SelectSeq(providers, LAMBDA p : p.name # provider_name)
    /\ UNCHANGED <<monitoring, lifecycle, evaluation, dispatch, caching,
                   pacing, limiting, call>>

ServiceInit == AtRest /\ eval_in = NoEval /\ eval_out = NoEval

ServiceNext == GetPriceV2 \/ QueryProvider \/ AddProvider \/ RemoveProvider

ServiceSpec == ServiceInit /\ [][ServiceNext]_vars

\* ------------------------------------------------------------------ C35
\* The providers registered when the call started that can handle it.
SuitableAtCall ==
    {call.snapshot[k] : k \in {j \in 1..Len(call.snapshot) :
                                   call.kind \in call.snapshot[j].handles}}

\* C35: the providers queried by a get_price call are suitable ones, in
\* ascending order of priority, each queried only after all queried before
\* it failed and after every suitable provider of higher priority (lower
\* number) was queried; a returned price is that of the last one queried, and
\* the call raises only if no provider was suitable or all of them failed.
C35_PriorityOrderFirstSuccess ==
    LET log == call.log
        Queried(k) == {log[j].name : j \in 1..k}
    IN /\ \A k \in 1..Len(log) :
             /\ \E p \in SuitableAtCall :
                   p.name = log[k].name /\ p.priority = log[k].priority
             /\ \A j \in 1..(k - 1) :
                   /\ ~log[j].ok
                   /\ log[j].priority <= log[k].priority
                   /\ log[j].name # log[k].name
             /\ \A p \in SuitableAtCall :
                   p.priority < log[k].priority => p.name \in Queried(k - 1)
       /\ call.pc = "returned" =>
             log # <<>> /\ log[Len(log)].ok /\ call.result = log[Len(log)].name
       /\ call.pc = "raised" =>
             /\ \A k \in 1..Len(log) : ~log[k].ok
             /\ \A p \in SuitableAtCall : p.name \in Queried(Len(log))
       /\ call.pc = "query" => \A k \in 1..Len(log) : ~log[k].ok

\* After Mirror was added behind the built-in providers, a call queried
\* Mirror first, then Alpha Vantage, and returned the price of the third.
C35_Witness ==
    /\ call.pc = "returned"
    /\ Len(call.log) = 3
    /\ call.log[1].name = "Mirror"
    /\ call.log[2].name = "Alpha Vantage"
    /\ call.log[3].priority = 2

\* ------------------------------------------------- the rate limiter
MaxRequests == 3      \* requests sent to the provider

\* Lines 77-84: the task takes the lock and reads the clock; when the last
\* call is too recent it sleeps, holding the lock.
AcquireEnter(t) ==
    /\ limiter.pc[t] = "idle"
    /\ limiter.holder = "none"
    /\ limiter' = [limiter EXCEPT !.holder = t, !.pc[t] = "locked"]
    /\ UNCHANGED <<monitoring, lifecycle, evaluation, dispatch, caching,
                   pacing, serving, outbound>>

\* Lines 81-86: the wait is over; last_call_time is set and the lock
\* released.
AcquireLeave(t) ==
    /\ limiter.pc[t] = "locked"
    /\ clock - limiter.last_call_time >= PaceInterval
    /\ limiter' = [limiter EXCEPT !.holder = "none", !.pc[t] = "acquired",
                                  !.last_call_time = clock]
    /\ UNCHANGED <<monitoring, lifecycle, evaluation, dispatch, caching,
                   pacing, serving, outbound>>

\* get_stock_price.fetch_price, lines 56-67: after acquire, client.get.
PacedRequest(t) ==
    /\ limiter.pc[t] = "acquired"
    /\ Len(outbound) < MaxRequests
    /\ outbound' = Append(outbound, [at |-> clock, via |-> "get_stock_price"])
    /\ limiter' = [limiter EXCEPT !.pc[t] = "idle"]
    /\ UNCHANGED <<monitoring, lifecycle, evaluation, dispatch, caching,
                   pacing, serving>>

\* get_global_quote, get_rsi, get_sma and _get_indicator_series, lines
\* 109-213: client.get without acquire.
DirectRequest ==
    /\ Len(outbound) < MaxRequests
    /\ \E via \in {"get_global_quote", "get_rsi_series"} :
          outbound' = Append(outbound, [at |-> clock, via |-> via])
    /\ UNCHANGED <<monitoring, lifecycle, evaluation, dispatch, caching,
                   pacing, serving, limiter>>

Acquire == \E t \in Tasks : AcquireEnter(t)

Release == \E t \in Tasks : AcquireLeave(t)

Fetch == \E t \in Tasks : PacedRequest(t)

LimitInit == AtRest /\ eval_in = NoEval /\ eval_out = NoEval

LimitNext == Acquire \/ Release \/ Fetch \/ DirectRequest \/ ClockTick

LimitSpec == LimitInit /\ [][LimitNext]_vars

\* ------------------------------------------------------------------ C36
\* C36: two consecutive requests sent to one provider are at least the
\* limiter's minimum interval apart, whichever callers sent them.
C36_RequestsPaced ==
    \A k \in 2..Len(outbound) :
        outbound[k].at - outbound[k - 1].at >= PaceInterval

\* ------------------------------------------------------------------ C37
\* C37: when the record of a send_price_alert call cannot be written, a
\* delivered notification is still returned, and a failed delivery still
\* raises WhatsAppError around the error of the delivery.
C37_RecordingFailureHidden ==
    [][/\ send.pc = "store"
       /\ send'.pc # "store"
       /\ notification_attempts' = notification_attempts
       => /\ send.sent =>
                send'.pc = "returned" /\ send'.raised = NoError
          /\ ~send.sent =>
                /\ send'.pc = "raised"
                /\ send'.raised = WhatsAppError(send.retry_error)
                /\ send.retry_error = WhatsAppError(send.last_error)
                /\ send.last_error \in ChannelErrors]_vars

\* Two calls are over without any record written: the first delivery
\* failed and raised, the second was delivered and returned.
C37_Witness ==
    /\ send.pc = "returned"
    /\ send.calls = 2
    /\ send.sent
    /\ channel_attempts > 1
    /\ notification_attempts = <<>>

\* ------------------------------------------------------------------ C38
\* C38: in the statistics a cycle returns, triggered_alerts has
\* alerts_triggered entries and names no alert twice.
C38_TriggeredListMatchesCount ==
    [][\A r \in Runners :
          Returns(r) =>
             LET cs == cycle_stats'[r]
             IN /\ Len(cs.triggered_alerts) = cs.alerts_triggered
                /\ \A j, k \in 1..Len(cs.triggered_alerts) :
                      cs.triggered_alerts[j] = cs.triggered_alerts[k] => j = k]_vars

\* ------------------------------------------------------------------ C39
\* C39: the cycles counted as successful or failed never outnumber the
\* cycles started, and when no cycle is in flight every started cycle has
\* been counted as one or the other.
C39_CyclesCountedOnce ==
    /\ stats.successful_cycles + stats.failed_cycles <= stats.total_cycles
    /\ (\A r \in Runners : ~InFlight(r)) =>
          stats.total_cycles = stats.successful_cycles + stats.failed_cycles

\* ------------------------------------------------ configuration updates
\* Variant: the setting is written and the scheduler is left alone.
UpdateSettingWithoutReload(value) ==
    IF ~(MinInterval <= value /\ value <= MaxInterval)
    THEN /\ last_call' = Call("update_setting", "rejected", value)
         /\ UNCHANGED <<monitoring_interval_minutes, scheduler, detached,
                        sleepers, is_running, job_vars, tables, evaluation,
                        dispatch, fetching>>
    ELSE /\ monitoring_interval_minutes' = value
         /\ last_call' = Call("update_setting", "updated", value)
         /\ UNCHANGED <<scheduler, is_running, job_vars, sleepers>>
         /\ UNCHANGED <<detached, tables, evaluation, dispatch, fetching>>

\* ConfigService.update_setting("monitoring_interval_minutes", value),
\* lines 227-262, with _apply_hot_reload, lines 279-285: the value is
\* validated against 1..60 and written to the shared settings object; when
\* the scheduler is running, update_interval(value) is awaited.
UpdateSetting(value) ==
    IF ~(MinInterval <= value /\ value <= MaxInterval)
    THEN /\ last_call' = Call("update_setting", "rejected", value)
         /\ UNCHANGED <<monitoring_interval_minutes, scheduler, detached,
                        sleepers, is_running, job_vars, tables, evaluation,
                        dispatch, fetching>>
    ELSE /\ monitoring_interval_minutes' = value
         /\ last_call' = Call("update_setting", "updated", value)
         /\ IF scheduler.running
            THEN /\ sleepers < MaxSleepers
                 /\ Shutdown
                 /\ sleepers' = sleepers + 1
            ELSE UNCHANGED <<scheduler, is_running, job_vars, sleepers>>
         /\ UNCHANGED <<detached, tables, evaluation, dispatch, fetching>>

ConfigNext == LifeNext \/ \E value \in UpdateMinutes : UpdateSetting(value)

ConfigSpec == LifeInit /\ [][ConfigNext]_vars

\* ------------------------------------------------------------------ C40
\* C40: whenever the scheduler is running and no restart is suspended in its
\* sleep, the interval of its timer is the configured
\* monitoring_interval_minutes, and no other timer is left running.
C40_TimerFollowsSetting ==
    scheduler.running /\ sleepers = 0 =>
        /\ scheduler.interval = monitoring_interval_minutes
        /\ detached = 0

\* The interval was changed to 60 through the configuration while the
\* scheduler was running, the restart is over, and the timer fires every 60
\* minutes.
C40_Witness ==
    /\ scheduler.running
    /\ sleepers = 0
    /\ last_call.op = "restart"
    /\ last_call.outcome = "started"
    /\ monitoring_interval_minutes = 60
    /\ scheduler.interval = 60
    /\ stats.total_cycles > 0

====
